---- MODULE Spec2Model ----
(***************************************************************************)
(* redux-sacala: blocks, block builders, the action-creator proxy, the     *)
(* composition builder and the effects middleware, as state machines over  *)
(* a small JavaScript heap.                                                *)
(***************************************************************************)
EXTENDS Integers, Sequences, FiniteSets, TLC

(* ------------------------------------------------------------------------ *)
(* Bounds of the model                                                      *)
(* ------------------------------------------------------------------------ *)

\* numbers handed in as states and payload elements are 0..MaxVal
MaxVal == 1
\* payloads carry at most MaxArgs elements
MaxArgs == 2
\* a builder holds at most MaxFactories effects factories
MaxFactories == 2

(* ------------------------------------------------------------------------ *)
(* JavaScript values. Primitives compare by value, objects by address, so   *)
(* equality of these records is JavaScript's ===.                           *)
(* ------------------------------------------------------------------------ *)

Undef == [t |-> "undefined"]
Null == [t |-> "null"]
Num(n) == [t |-> "number", v |-> n]
Str(s) == [t |-> "string", s |-> s]
Ref(a) == [t |-> "object", a |-> a]

\* an object literal {}: no own properties
EmptyObject == [k \in {} |-> Undef]

\* obj[k] = v on a plain object
SetProp(obj, k, v) == [x \in (DOMAIN obj) \cup {k} |-> IF x = k THEN v ELSE obj[x]]

\* Object.assign(target, source)
Assign(target, source) ==
    [x \in (DOMAIN target) \cup (DOMAIN source) |->
        IF x \in DOMAIN source THEN source[x] ELSE target[x]]

\* a new object on the heap: the address it gets, and the heap holding it
Alloc(hp, obj) == [val |-> Ref(Len(hp) + 1), heap |-> Append(hp, obj)]

\* the payload sequences a caller may pass
Args == {Num(n) : n \in 0..MaxVal}
Payloads == UNION {[1..k -> Args] : k \in 0..MaxArgs}

(* ------------------------------------------------------------------------ *)
(* The program's names                                                      *)
(* ------------------------------------------------------------------------ *)

\* ReduxBlock.builder(name, initial): the two blocks of the test-suite, one
\* with a primitive state and one with an object state
Builders == {"counter", "message"}
ActionNames == {"inc", "set"}

\* the properties every plain object inherits from Object.prototype
ObjectPrototype == {"toString"}

\* action types a caller may hand to block b: those of the block, one nobody
\* registers, and an inherited property name
TypesOf(b) == {b \o "/" \o n : n \in ActionNames} \cup {"OTHER_ACTION"} \cup ObjectPrototype

(* ------------------------------------------------------------------------ *)
(* The handlers the callers register (user code)                            *)
(* ------------------------------------------------------------------------ *)

RECURSIVE SumArgs(_)
SumArgs(args) == IF args = <<>> THEN 0 ELSE Head(args).v + SumArgs(Tail(args))

FirstArg(args) == IF Len(args) > 0 THEN args[1] ELSE Undef

HandlersOf(b) ==
    IF b = "counter" THEN {"inc", "sum", "set"} ELSE {"setValue", "same"}

\* the number that arithmetic on undefined yields
NaN == [t |-> "NaN"]

\* what a call yields when the function called throws
Thrown == [t |-> "throws"]

\* handler(state, ...args): the value returned and the heap afterwards
\*   inc       (state) => state + 1
\*   sum       (state, ...vs) => vs.reduce((a, v) => a + v, state)
\*   set       (state, text) => text
\*   setValue  (state, value) => ({ ...state, value })
\*   same      (state) => state
\*   toString  Object.prototype.toString, called with no receiver
\*   boom      (state) => { throw new Error() }
\*   guard     (state) => { if (state >= 1) throw new Error(); return state + 1 }
Apply(h, state, args, hp) ==
    CASE h = "boom" -> [val |-> Thrown, heap |-> hp]
      [] h = "guard" ->
            [val |-> IF state.t = "number" /\ state.v < 1 THEN Num(state.v + 1) ELSE Thrown,
             heap |-> hp]
      [] h = "inc" ->
            [val |-> IF state.t = "number" THEN Num(state.v + 1) ELSE NaN, heap |-> hp]
      [] h = "sum" ->
            [val |-> IF state.t = "number" THEN Num(state.v + SumArgs(args))
                     ELSE IF args = <<>> THEN state ELSE NaN,
             heap |-> hp]
      [] h = "set" -> [val |-> FirstArg(args), heap |-> hp]
      [] h = "setValue" ->
            Alloc(hp, SetProp(IF state.t = "object" THEN hp[state.a] ELSE EmptyObject,
                              "value", FirstArg(args)))
      [] h = "same" -> [val |-> state, heap |-> hp]
      [] h = "toString" -> [val |-> Str("[object Undefined]"), heap |-> hp]

(* ------------------------------------------------------------------------ *)
(* has, property lookup, creator                                            *)
(* ------------------------------------------------------------------------ *)

\* has(v, k) taken as k in v
hasInherited(v, k) == k \in DOMAIN v \cup ObjectPrototype

\* has(v, k) for a plain object v given by its own properties
has(v, k) == k \in DOMAIN v

\* obj[k] on a plain object: own properties first, then Object.prototype,
\* else undefined
Lookup(obj, k) ==
    IF k \in DOMAIN obj THEN obj[k]
    ELSE IF k \in ObjectPrototype THEN k
    ELSE "undefined"

\* creatorCall with the payload key always set, also for no arguments
creatorCallAlwaysPayload(scope, property, payload) ==
    [type |-> scope \o "/" \o property, payload |-> payload]

\* the function the proxy's get trap returns for property p, applied to payload
creatorCall(scope, property, payload) ==
    IF Len(payload) > 0
        THEN [type |-> scope \o "/" \o property, payload |-> payload]
        ELSE [type |-> scope \o "/" \o property]

\* the proxy's get trap: an own property of the target is returned as it is,
\* any other property yields a creator function closed over scope and property
creatorGet(target, scope, property) ==
    IF has(target, property)
        THEN [own |-> TRUE, value |-> target[property]]
        ELSE [own |-> FALSE, scope |-> scope, property |-> property]

(* ------------------------------------------------------------------------ *)
(* Effects factories and selectors the callers register (user code)         *)
(* ------------------------------------------------------------------------ *)

Contexts == {"ctx1", "ctx2"}
Factories == {"f1", "f2"}

\* factory(context): effect name -> handler, each handler closed over context
\*   f1  (ctx) => ({ run })          f2  (ctx) => ({ run, stop })
FactoryResult(f, context) ==
    IF f = "f1"
        THEN [e \in {"run"} |-> [fn |-> "f1.run", ctx |-> context]]
        ELSE [e \in {"run", "stop"} |-> [fn |-> "f2." \o e, ctx |-> context]]

\* a selector function: the user's function fn, reached through the
\* projections of path, outermost first
Selector(fn) == [fn |-> fn, path |-> <<>>]
IsFunction(tree) == DOMAIN tree = {"fn", "path"}

SelectorMaps ==
    {[n \in {"value"} |-> Selector("selValue")],
     [n \in {"value", "double"} |->
        IF n = "value" THEN Selector("selValue2") ELSE Selector("selDouble")]}

\* the projections callers lift by: state => state[k], and s => p1(p2(s))
Key(k) == [key |-> k]
Composed(p1, p2) == [outer |-> p1, inner |-> p2]

\* state[k] as user code reads it: a TypeError on undefined and null
Read(state, k, hp) ==
    IF state = Thrown \/ state \in {Undef, Null} THEN Thrown
    ELSE IF state.t = "object" /\ k \in DOMAIN hp[state.a] THEN hp[state.a][k]
    ELSE Undef

\* selectState(state)
RECURSIVE Project(_, _, _)
Project(selectState, state, hp) ==
    IF "key" \in DOMAIN selectState
        THEN Read(state, selectState.key, hp)
        ELSE Project(selectState.outer, Project(selectState.inner, state, hp), hp)

\* the selectors of the callers, applied to a state
\*   selValue, selValue2  (state) => state.value
\*   selDouble            (state) => state.value * 2
\*   selSelf              (state) => state
\*   selCounter           (state) => state.counter
ApplySelector(fn, state, hp) ==
    CASE state = Thrown -> Thrown
      [] fn \in {"selValue", "selValue2"} -> Read(state, "value", hp)
      [] fn = "selDouble" ->
            LET v == Read(state, "value", hp)
            IN  IF v = Thrown THEN Thrown
                ELSE IF v.t = "number" THEN Num(2 * v.v) ELSE NaN
      [] fn = "selSelf" -> state
      [] fn = "selCounter" -> Read(state, "counter", hp)

\* the projections of path applied in turn, the first one first
RECURSIVE ProjectAll(_, _, _)
ProjectAll(path, state, hp) ==
    IF path = <<>> THEN state
    ELSE ProjectAll(Tail(path), Project(Head(path), state, hp), hp)

\* selector(state) of a selector function, lifted or not
Select(selector, state, hp) ==
    ApplySelector(selector.fn, ProjectAll(selector.path, state, hp), hp)

\* lift(tree, selectState) with leaves state => selectState(tree(state))
RECURSIVE liftInnermost(_, _)
liftInnermost(tree, selectState) ==
    IF IsFunction(tree)
        THEN [fn |-> tree.fn, path |-> tree.path \o <<selectState>>]
        ELSE [k \in DOMAIN tree |-> liftInnermost(tree[k], selectState)]

\* lift(tree, selectState)
RECURSIVE lift(_, _)
lift(tree, selectState) ==
    IF IsFunction(tree)
        THEN [fn |-> tree.fn, path |-> <<selectState>> \o tree.path]
        ELSE [k \in DOMAIN tree |-> lift(tree[k], selectState)]

(* ------------------------------------------------------------------------ *)
(* State                                                                    *)
(* ------------------------------------------------------------------------ *)

VARIABLES
    live,       \* the BlockBuilders constructed so far
    reducers,   \* BlockBuilder.reducers: type -> handler, per builder
    handlers,   \* BlockBuilder.handlers: the effects factories, per builder
    select,     \* BlockBuilder.select: name -> selector, per builder
    built,      \* whether build() has returned a Block of this builder
    blocks,     \* CompositionBuilder.blocks: [name, block] in insertion order, per composition
    creators,   \* the own properties of CompositionBuilder.creators: name -> actions
    compSelect, \* CompositionBuilder.select: name -> selector tree
    compHandlers, \* CompositionBuilder.handlers: the effects factories
    compBuilt,  \* the Block build() last returned, per composition
    heap,       \* the objects allocated so far
    last,       \* the call whose result the caller holds, if any
    mw,         \* the middleware created: its block, context and const effects
    calls,      \* the calls of effects functions, factories and mappers so far
    pc,         \* where the per-action function of the middleware is
    dispatched, \* the action the per-action function was called with
    trace,      \* what the per-action function has called, in order
    served,     \* how many actions the middleware has been given
    store,      \* the store the middleware is installed in, if any: its state
    returned,   \* what next(action) and the per-action function have returned
    stack       \* the calls of the per-action function waiting for an effect handler

builderVars == <<live, reducers, handlers, select, built>>
compVars == <<blocks, creators, compSelect, compHandlers, compBuilt>>
mwVars == <<mw, calls, pc, dispatched, trace, served, store, returned, stack>>
vars == <<builderVars, compVars, heap, last, mwVars>>

\* the state a builder is constructed with: 0 for the counter, an object
\* { value: 0 } at address 1 for the message block
InitHeap == <<[value |-> Num(0)]>>
initial(b) == IF b = "counter" THEN Num(0) ELSE Ref(1)

\* the memory a caller sets up before a call on block b: the initial object
\* alone, or (for the block whose state is an object) with one more object
\* { value: n } of the caller's
InputHeaps(b) ==
    {InitHeap} \cup
    (IF b = "counter" THEN {} ELSE {Append(InitHeap, [value |-> Num(n)]) : n \in 0..MaxVal})

\* the states a caller may hand to the reducer of block b
StatesOf(b, hp) ==
    {Undef} \cup
    (IF b = "counter"
        THEN {Num(n) : n \in 0..MaxVal}
        ELSE {Ref(a) : a \in DOMAIN hp})

\* the actions a caller may hand to a reducer
ActionsOf(types) ==
    {[type |-> t] : t \in types}
        \cup {[type |-> t, payload |-> p] : t \in types, p \in Payloads}

(* ------------------------------------------------------------------------ *)
(* BlockBuilder                                                             *)
(* ------------------------------------------------------------------------ *)

NoCall == [op |-> "none"]
NoMw == [block |-> "none"]
NoStore == [made |-> FALSE]
\* neither next nor the per-action function has returned
NoReturn == [next |-> <<>>, fn |-> <<>>]

\* no middleware has been created
MwInit ==
    /\ mw = NoMw
    /\ calls = <<>>
    /\ pc = "idle"
    /\ dispatched = Undef
    /\ trace = <<>>
    /\ served = 0
    /\ store = NoStore
    /\ returned = NoReturn
    /\ stack = <<>>

\* BlockBuilder.init
BuilderInit ==
    /\ reducers = [b \in Builders |-> EmptyObject]
    /\ handlers = [b \in Builders |-> <<>>]
    /\ select = [b \in Builders |-> EmptyObject]
    /\ built = [b \in Builders |-> FALSE]

\* action(action, handler) keeping the handler a name already has
BuilderActionFirst(b, action, handler) ==
    /\ b \in live
    /\ reducers' = [reducers EXCEPT ![b] =
            IF has(@, b \o "/" \o action) THEN @ ELSE SetProp(@, b \o "/" \o action, handler)]
    /\ last' = [op |-> "action", block |-> b, name |-> action, handler |-> handler,
                before |-> reducers[b]]
    /\ UNCHANGED <<live, handlers, select, built, compVars, heap, mwVars>>

\* BlockBuilder.action(action, handler); last keeps the call and the table
\* it found
BuilderAction(b, action, handler) ==
    /\ b \in live
    /\ reducers' = [reducers EXCEPT ![b] = SetProp(@, b \o "/" \o action, handler)]
    /\ last' = [op |-> "action", block |-> b, name |-> action, handler |-> handler,
                before |-> reducers[b]]
    /\ UNCHANGED <<live, handlers, select, built, compVars, heap, mwVars>>

\* BlockBuilder.effects(effects)
BuilderEffects(b, f) ==
    /\ b \in live
    /\ Len(handlers[b]) < MaxFactories
    /\ handlers' = [handlers EXCEPT ![b] = Append(@, f)]
    /\ last' = NoCall
    /\ UNCHANGED <<live, reducers, select, built, compVars, heap, mwVars>>

\* selectors(selectors) putting the map given in the place of this.select
BuilderSelectorsReplace(b, selectors) ==
    /\ b \in live
    /\ select' = [select EXCEPT ![b] = selectors]
    /\ last' = [op |-> "selectors", block |-> b, given |-> selectors, before |-> select[b]]
    /\ UNCHANGED <<live, reducers, handlers, built, compVars, heap, mwVars>>

\* BlockBuilder.selectors(selectors); last keeps the call and the selectors
\* it found
BuilderSelectors(b, selectors) ==
    /\ b \in live
    /\ select' = [select EXCEPT ![b] = Assign(@, selectors)]
    /\ last' = [op |-> "selectors", block |-> b, given |-> selectors, before |-> select[b]]
    /\ UNCHANGED <<live, reducers, handlers, built, compVars, heap, mwVars>>

\* BlockBuilder.build(): the Block closes over the builder (this.reducers,
\* this.handlers, this.select)
BuilderBuild(b) ==
    /\ b \in live
    /\ built' = [built EXCEPT ![b] = TRUE]
    /\ last' = NoCall
    /\ UNCHANGED <<live, reducers, handlers, select, compVars, heap, mwVars>>

\* reducer without the default value of its state parameter
reducerNoDefault(table, initialState, given, action, hp) ==
    LET handler == Lookup(table, action.type)
    IN  IF handler = "undefined"
            THEN [val |-> given, heap |-> hp]
            ELSE IF "payload" \in DOMAIN action /\ Len(action.payload) > 0
                    THEN Apply(handler, given, action.payload, hp)
                    ELSE Apply(handler, given, <<>>, hp)

\* reducer handing the handler the first payload element only
reducerFirstElement(table, initialState, given, action, hp) ==
    LET state == IF given = Undef THEN initialState ELSE given
        handler == Lookup(table, action.type)
    IN  IF handler = "undefined"
            THEN [val |-> state, heap |-> hp]
            ELSE IF "payload" \in DOMAIN action /\ Len(action.payload) > 0
                    THEN Apply(handler, state, <<action.payload[1]>>, hp)
                    ELSE Apply(handler, state, <<>>, hp)

\* the reducer build() returns, reading the handler table it closes over
reducer(table, initialState, given, action, hp) ==
    LET state == IF given = Undef THEN initialState ELSE given
        handler == Lookup(table, action.type)
    IN  IF handler = "undefined"
            THEN [val |-> state, heap |-> hp]
            ELSE IF "payload" \in DOMAIN action /\ Len(action.payload) > 0
                    THEN Apply(handler, state, action.payload, hp)
                    ELSE Apply(handler, state, <<>>, hp)

\* Object.fromEntries(Object.entries(map).map(([effectName, handler]) =>
\*     [`${blockName}/${effectName}`, handler]))
\* the entries of a factory's result under their own names
NamespacedBare(blockName, map) == map

Namespaced(blockName, map) ==
    [k \in {blockName \o "/" \o e : e \in DOMAIN map} |->
        map[CHOOSE e \in DOMAIN map : blockName \o "/" \o e = k]]

\* the reduce keeping the entry the table has when a later factory returns
\* the same name
RECURSIVE effectsTableFirst(_, _, _, _)
effectsTableFirst(blockName, factories, context, acc) ==
    IF factories = <<>> THEN acc
    ELSE effectsTableFirst(blockName, Tail(factories), context,
            Assign(Namespaced(blockName, FactoryResult(Head(factories), context)), acc))

\* the effects function build() returns: this.handlers.reduce(...) over the
\* factories, in registration order, into one table
RECURSIVE effectsTable(_, _, _, _)
effectsTable(blockName, factories, context, acc) ==
    IF factories = <<>> THEN acc
    ELSE effectsTable(blockName, Tail(factories), context,
            Assign(acc, Namespaced(blockName, FactoryResult(Head(factories), context))))

\* the calls of handlers the reducer makes: none, or the one handler it
\* finds under action.type
reducerCalls(table, initialState, given, action) ==
    LET state == IF given = Undef THEN initialState ELSE given
        handler == Lookup(table, action.type)
    IN  IF handler = "undefined" THEN <<>>
        ELSE <<[fn |-> handler, state |-> state,
                args |-> IF "payload" \in DOMAIN action /\ Len(action.payload) > 0
                            THEN action.payload ELSE <<>>]>>

\* the Block of builder b as it is now
blockReducer(b, given, action, hp) == reducer(reducers[b], initial(b), given, action, hp)
blockEffects(b, context) == effectsTable(b, handlers[b], context, EmptyObject)
blockSelect(b) == select[b]

(* ------------------------------------------------------------------------ *)
(* Calls on a built Block                                                   *)
(* ------------------------------------------------------------------------ *)

\* block.reducer(state, action), in the memory hp the caller has set up
CallReducer(b, hp, state, action) ==
    /\ built[b]
    /\ last = NoCall
    /\ LET r == blockReducer(b, state, action, hp)
       IN  /\ heap' = r.heap
           /\ last' = [op |-> "reducer", block |-> b, state |-> state,
                       action |-> action, result |-> r.val, before |-> hp]
    /\ UNCHANGED <<builderVars, compVars, mwVars>>

\* the caller drops the result it holds
Discard ==
    /\ last # NoCall
    /\ last' = NoCall
    /\ heap' = InitHeap
    /\ UNCHANGED <<builderVars, compVars, mwVars>>

\* block.actions[property](...payload)
CallCreator(b, property, payload) ==
    /\ built[b]
    /\ last = NoCall
    /\ LET got == creatorGet(EmptyObject, b, property)
       IN  /\ ~got.own
           /\ last' = [op |-> "creator", block |-> b, property |-> property,
                       payload |-> payload,
                       result |-> creatorCall(got.scope, got.property, payload)]
    /\ UNCHANGED <<builderVars, compVars, heap, mwVars>>

\* the property names a caller may read from an actions object
Properties == ActionNames \cup {"run", "then"} \cup ObjectPrototype

(* ------------------------------------------------------------------------ *)
(* CompositionBuilder                                                       *)
(* ------------------------------------------------------------------------ *)

Comps == {"inner", "root"}

\* a Block: the one a BlockBuilder builds closes over the builder; the one a
\* CompositionBuilder builds closes over the builder and over the reducers
\* build() collected from this.blocks
NoBlock == [kind |-> "none"]
leafBlock(b) == [kind |-> "block", of |-> b]
compositeBlock(c, collected) == [kind |-> "composition", of |-> c, reducers |-> collected]

\* ReduxBlock.mapContext(block, mapper): the block's actions, reducer and
\* select, and an effects function that maps the context first
mapContext(block, mapper) == [kind |-> "mapContext", block |-> block, mapper |-> mapper]

\* mapper(ctx) of the one mapper the callers use: it exchanges the contexts
Mappers == {"swap"}
Adapt(mapper, ctx) == IF ctx = "ctx1" THEN "ctx2" ELSE "ctx1"

\* block.actions: the proxy creator(name) of the builder that built the
\* block; it is this.creators for a composition, and mapContext keeps it
RECURSIVE actionsOf(_)
actionsOf(block) ==
    CASE block.kind = "block" -> [scope |-> block.of, target |-> "block"]
      [] block.kind = "composition" -> [scope |-> block.of, target |-> "composition"]
      [] block.kind = "mapContext" -> actionsOf(block.block)

\* actions[property] with a registered child's creators wrapped anew under
\* the scope of the composition
actionsGetPrefixed(actions, property) ==
    LET got == creatorGet(IF actions.target = "composition" THEN creators[actions.scope]
                          ELSE EmptyObject, actions.scope, property)
    IN  IF got.own
            THEN [own |-> TRUE,
                  value |-> [scope |-> actions.scope \o "/" \o got.value.scope,
                             target |-> got.value.target]]
            ELSE got

\* actions[property]: the get trap on the target of the proxy, which has
\* own properties only when block() has set them
actionsGet(actions, property) ==
    creatorGet(IF actions.target = "composition" THEN creators[actions.scope] ELSE EmptyObject,
               actions.scope, property)

\* CompositionBuilder.init
CompInit ==
    /\ blocks = [c \in Comps |-> <<>>]
    /\ creators = [c \in Comps |-> EmptyObject]
    /\ compSelect = [c \in Comps |-> EmptyObject]
    /\ compHandlers = [c \in Comps |-> <<>>]
    /\ compBuilt = [c \in Comps |-> NoBlock]

\* entries[name] = block on an object whose keys keep their insertion order
PutEntry(entries, name, block) ==
    IF \E i \in DOMAIN entries : entries[i].name = name
        THEN [i \in DOMAIN entries |->
                IF entries[i].name = name THEN [name |-> name, block |-> block] ELSE entries[i]]
        ELSE Append(entries, [name |-> name, block |-> block])

\* block.select
RECURSIVE selectOf(_)
selectOf(block) ==
    CASE block.kind = "block" -> select[block.of]
      [] block.kind = "composition" -> compSelect[block.of]
      [] block.kind = "mapContext" -> selectOf(block.block)

\* CompositionBuilder.block(name, block)
CompBlock(c, name, block) ==
    /\ blocks' = [blocks EXCEPT ![c] = PutEntry(@, name, block)]
    /\ creators' = [creators EXCEPT ![c] = SetProp(@, name, actionsOf(block))]
    /\ compSelect' = [compSelect EXCEPT ![c] = SetProp(@, name, lift(selectOf(block), Key(name)))]
    /\ last' = NoCall
    /\ UNCHANGED <<builderVars, compHandlers, compBuilt, heap, mwVars>>

\* CompositionBuilder.selectors(selectors)
CompSelectors(c, selectors) ==
    /\ compSelect' = [compSelect EXCEPT ![c] = Assign(@, selectors)]
    /\ last' = NoCall
    /\ UNCHANGED <<builderVars, blocks, creators, compHandlers, compBuilt, heap, mwVars>>

\* CompositionBuilder.effects(effects)
CompEffects(c, f) ==
    /\ Len(compHandlers[c]) < MaxFactories
    /\ compHandlers' = [compHandlers EXCEPT ![c] = Append(@, f)]
    /\ last' = NoCall
    /\ UNCHANGED <<builderVars, blocks, creators, compSelect, compBuilt, heap, mwVars>>

\* CompositionBuilder.build(): reducers is collected from this.blocks now
CompBuild(c) ==
    /\ compBuilt' = [compBuilt EXCEPT ![c] = compositeBlock(c, blocks[c])]
    /\ last' = NoCall
    /\ UNCHANGED <<builderVars, blocks, creators, compSelect, compHandlers, heap, mwVars>>

\* state?.[name] taken to be undefined, whatever state holds
slotMissing(given, name, hp) == Undef

\* state?.[name]
slot(given, name, hp) ==
    IF given.t = "object" /\ name \in DOMAIN hp[given.a] THEN hp[given.a][name] ELSE Undef

\* { ...state } with nothing in it
spreadNothing(given, hp) == EmptyObject

\* { ...state }
spread(given, hp) == IF given.t = "object" THEN hp[given.a] ELSE EmptyObject

\* updated !== original, taken to hold always
differsAlways(updated, original) == TRUE

\* updated !== original: NaN is unequal to every value, itself included
differs(updated, original) == updated # original \/ updated = NaN

\* block.reducer(state, action) of any Block; the reducer of a composite
\* Block is reducers.forEach over the collected children
RECURSIVE blockReduce(_, _, _, _)
RECURSIVE forEachReducer(_, _, _, _, _)

\* the forEach with the call of a child's reducer in a try whose catch
\* leaves the child's slot as it is
RECURSIVE forEachReducerCatching(_, _, _, _, _)
forEachReducerCatching(collected, i, given, action, acc) ==
    IF i > Len(collected)
        THEN [val |-> acc.result, heap |-> acc.heap]
        ELSE
            LET name == collected[i].name
                original == slot(given, name, acc.heap)
                r == blockReduce(collected[i].block, original, action, acc.heap)
                copy == IF acc.changed
                            THEN [val |-> acc.result, heap |-> r.heap]
                            ELSE Alloc(r.heap, spread(given, r.heap))
            IN  IF r.val # Thrown /\ differs(r.val, original)
                    THEN forEachReducerCatching(collected, i + 1, given, action,
                            [result |-> copy.val, changed |-> TRUE,
                             heap |-> [copy.heap EXCEPT ![copy.val.a] = SetProp(@, name, r.val)]])
                    ELSE forEachReducerCatching(collected, i + 1, given, action,
                            [acc EXCEPT !.heap = r.heap])

\* the forEach with result[name] = updated written to the state given, no
\* copy made of it
RECURSIVE forEachReducerInPlace(_, _, _, _, _)
forEachReducerInPlace(collected, i, given, action, acc) ==
    IF i > Len(collected)
        THEN [val |-> acc.result, heap |-> acc.heap]
        ELSE
            LET name == collected[i].name
                original == slot(given, name, acc.heap)
                r == blockReduce(collected[i].block, original, action, acc.heap)
                copy == IF acc.changed
                            THEN [val |-> acc.result, heap |-> r.heap]
                        ELSE IF given.t = "object"
                            THEN [val |-> given, heap |-> r.heap]
                            ELSE Alloc(r.heap, spread(given, r.heap))
            IN  IF r.val = Thrown
                    THEN [val |-> Thrown, heap |-> r.heap]
                ELSE IF differs(r.val, original)
                    THEN forEachReducerInPlace(collected, i + 1, given, action,
                            [result |-> copy.val, changed |-> TRUE,
                             heap |-> [copy.heap EXCEPT ![copy.val.a] = SetProp(@, name, r.val)]])
                    ELSE forEachReducerInPlace(collected, i + 1, given, action,
                            [acc EXCEPT !.heap = r.heap])

\* reducers.forEach(([name, reducer]) => ...): an exception of a child's
\* reducer leaves the forEach and the composite reducer
forEachReducer(collected, i, given, action, acc) ==
    IF i > Len(collected)
        THEN [val |-> acc.result, heap |-> acc.heap]
        ELSE
            LET name == collected[i].name
                original == slot(given, name, acc.heap)
                r == blockReduce(collected[i].block, original, action, acc.heap)
                copy == IF acc.changed
                            THEN [val |-> acc.result, heap |-> r.heap]
                            ELSE Alloc(r.heap, spread(given, r.heap))
            IN  IF r.val = Thrown
                    THEN [val |-> Thrown, heap |-> r.heap]
                ELSE IF differs(r.val, original)
                    THEN forEachReducer(collected, i + 1, given, action,
                            [result |-> copy.val, changed |-> TRUE,
                             heap |-> [copy.heap EXCEPT ![copy.val.a] = SetProp(@, name, r.val)]])
                    ELSE forEachReducer(collected, i + 1, given, action,
                            [acc EXCEPT !.heap = r.heap])

blockReduce(block, given, action, hp) ==
    CASE block.kind = "block" -> blockReducer(block.of, given, action, hp)
      [] block.kind = "composition" ->
            forEachReducer(block.reducers, 1, given, action,
                [result |-> given, changed |-> FALSE, heap |-> hp])
      [] block.kind = "mapContext" -> blockReduce(block.block, given, action, hp)

\* block.effects(context) of any Block; a composite Block reads the
\* builder's handlers and blocks when it is called
RECURSIVE effectsOf(_, _)
RECURSIVE assignChildren(_, _, _)
\* the children's tables assigned under the table so far: an entry already
\* there is kept
RECURSIVE assignChildrenFirst(_, _, _)
assignChildrenFirst(entries, context, acc) ==
    IF entries = <<>> THEN acc
    ELSE assignChildrenFirst(Tail(entries), context,
            Assign(effectsOf(Head(entries).block, context), acc))

assignChildren(entries, context, acc) ==
    IF entries = <<>> THEN acc
    ELSE assignChildren(Tail(entries), context,
            Assign(acc, effectsOf(Head(entries).block, context)))

\* effects with the effects function of a mapContext block handing the
\* context on as it is
effectsOfUnmapped(block, context) ==
    CASE block.kind = "block" -> blockEffects(block.of, context)
      [] block.kind = "composition" ->
            assignChildren(blocks[block.of], context,
                effectsTable(block.of, compHandlers[block.of], context, EmptyObject))
      [] block.kind = "mapContext" -> effectsOf(block.block, context)

effectsOf(block, context) ==
    CASE block.kind = "block" -> blockEffects(block.of, context)
      [] block.kind = "composition" ->
            assignChildren(blocks[block.of], context,
                effectsTable(block.of, compHandlers[block.of], context, EmptyObject))
      [] block.kind = "mapContext" -> effectsOf(block.block, Adapt(block.mapper, context))

\* the calls block.effects(context) makes, itself the first, in order: each
\* factory of the block with the context, then each child's effects function;
\* a block of mapContext calls its mapper, then the effects of its block
factoryCalls(factories, context) ==
    [i \in DOMAIN factories |-> [fn |-> factories[i], ctx |-> context]]

RECURSIVE effectsCalls(_, _)
RECURSIVE childrenCalls(_, _)
childrenCalls(entries, context) ==
    IF entries = <<>> THEN <<>>
    ELSE effectsCalls(Head(entries).block, context) \o childrenCalls(Tail(entries), context)

effectsCalls(block, context) ==
    <<[fn |-> "effects", of |-> block, ctx |-> context]>> \o
    CASE block.kind = "block" -> factoryCalls(handlers[block.of], context)
      [] block.kind = "composition" ->
            factoryCalls(compHandlers[block.of], context)
                \o childrenCalls(blocks[block.of], context)
      [] block.kind = "mapContext" ->
            <<[fn |-> block.mapper, ctx |-> context]>>
                \o effectsCalls(block.block, Adapt(block.mapper, context))

Init ==
    /\ live \in {{b} : b \in Builders}
    /\ BuilderInit
    /\ CompInit
    /\ heap = InitHeap
    /\ last = NoCall
    /\ MwInit

\* block.effects(context)
CallEffects(b, context) ==
    /\ built[b]
    /\ last = NoCall
    /\ last' = [op |-> "effects", block |-> b, context |-> context,
                result |-> blockEffects(b, context),
                calls |-> effectsCalls(leafBlock(b), context)]
    /\ UNCHANGED <<builderVars, compVars, heap, mwVars>>

\* block.select
ReadSelect(b) ==
    /\ built[b]
    /\ last = NoCall
    /\ last' = [op |-> "select", block |-> b, result |-> blockSelect(b)]
    /\ UNCHANGED <<builderVars, compVars, heap, mwVars>>

(* A block builder, the Block it builds, and calls of the Block's reducer   *)
(* and action creators.                                                     *)
Next ==
    \/ \E b \in Builders, a \in ActionNames : \E h \in HandlersOf(b) : BuilderAction(b, a, h)
    \/ \E b \in Builders : BuilderBuild(b)
    \/ \E b \in Builders : \E hp \in InputHeaps(b) :
          \E s \in StatesOf(b, hp), a \in ActionsOf(TypesOf(b)) : CallReducer(b, hp, s, a)
    \/ Discard
    \/ \E b \in Builders, p \in Properties, x \in Payloads : CallCreator(b, p, x)

Spec == Init /\ [][Next]_vars

(* A block builder with all four of its methods, and reads of the Block's   *)
(* effects table and selectors.                                             *)
NextBuilder ==
    \/ \E b \in Builders, a \in ActionNames : \E h \in HandlersOf(b) : BuilderAction(b, a, h)
    \/ \E b \in Builders, f \in Factories : BuilderEffects(b, f)
    \/ \E b \in Builders, m \in SelectorMaps : BuilderSelectors(b, m)
    \/ \E b \in Builders : BuilderBuild(b)
    \/ \E b \in Builders, c \in Contexts : CallEffects(b, c)
    \/ \E b \in Builders : ReadSelect(b)
    \/ Discard

SpecBuilder == Init /\ [][NextBuilder]_vars

(* ------------------------------------------------------------------------ *)
(* A composition of built blocks and a store on its reducer                 *)
(* ------------------------------------------------------------------------ *)

\* the two blocks as the test-suite builds them:
\*   builder("counter", 0).action("inc", inc).action("set", set).selectors(..).build()
\*   builder("message", { value: 0 }).action("set", setValue).action("inc", same)
\*       .selectors(..).build()
BuiltBlocksInit ==
    /\ live = Builders
    /\ reducers = [b \in Builders |->
            IF b = "counter"
                THEN SetProp(SetProp(EmptyObject, "counter/inc", "inc"), "counter/set", "set")
                ELSE SetProp(SetProp(EmptyObject, "message/set", "setValue"),
                             "message/inc", "same")]
    /\ handlers = [b \in Builders |-> <<>>]
    /\ select = [b \in Builders |-> Assign(EmptyObject, [n \in {"value"} |-> Selector("selValue")])]
    /\ built = [b \in Builders |-> TRUE]

InitComp ==
    /\ BuiltBlocksInit
    /\ CompInit
    /\ heap = InitHeap
    /\ last = NoCall
    /\ MwInit

\* what the caller registers where: inner holds the two blocks, root holds
\* the counter block and the Block inner has built
Registrations(c) ==
    IF c = "inner"
        THEN {[name |-> b, block |-> leafBlock(b)] : b \in {x \in Builders : built[x]}}
        ELSE {[name |-> "counter", block |-> leafBlock("counter")]}
                \cup (IF compBuilt["inner"] # NoBlock
                        THEN {[name |-> "inner", block |-> compBuilt["inner"]]}
                        ELSE {})

\* the caller is still composing c: it has not built it, and holds no result
Composing(c) == compBuilt[c] = NoBlock /\ last = NoCall

\* an object without the keys whose value is undefined
Compact(obj) == [k \in {x \in DOMAIN obj : obj[x] # Undef} |-> obj[k]]

\* the states a caller may hand to root's reducer, each in the memory that
\* holds it: undefined, or an object at address 4 with or without a counter
\* slot, an inner slot (an object at address 3, with or without its own
\* counter and message slots) and a key no block is registered under; a
\* message slot holds the initial object (address 1) or another (address 2)
CounterSlots == {Undef, NaN, Num(0), Num(MaxVal)}
MessageSlots == {Undef, Ref(1), Ref(2)}
ExtraSlots == {Undef, Num(0)}
InnerObjects ==
    {Compact([k \in {"counter", "message"} |-> IF k = "counter" THEN c ELSE m]) :
        c \in CounterSlots, m \in MessageSlots}
RootInputs ==
    {[state |-> Undef, heap |-> InitHeap]}
    \cup {[state |-> Ref(4),
           heap |-> <<InitHeap[1], [value |-> Num(1)], EmptyObject,
                      Compact([k \in {"counter", "extra"} |-> IF k = "counter" THEN c ELSE e])>>] :
            c \in CounterSlots, e \in ExtraSlots}
    \cup {[state |-> Ref(4),
           heap |-> <<InitHeap[1], [value |-> Num(1)], i,
                      Compact([k \in {"counter", "extra", "inner"} |->
                          IF k = "counter" THEN c ELSE IF k = "extra" THEN e ELSE Ref(3)])>>] :
            c \in CounterSlots, e \in ExtraSlots, i \in InnerObjects}

\* the action types handed to root's reducer, and their payloads
StoreTypes ==
    {b \o "/" \o n : b \in Builders, n \in ActionNames} \cup {"OTHER_ACTION"} \cup ObjectPrototype
StoreActions ==
    {[type |-> t] : t \in StoreTypes}
        \cup {[type |-> t, payload |-> <<x>>] : t \in StoreTypes, x \in Args}

\* root.reducer(state, action), in the memory hp the caller has set up
CallRootReducer(hp, given, action) ==
    /\ compBuilt["root"] # NoBlock
    /\ last = NoCall
    /\ \E r \in {blockReduce(compBuilt["root"], given, action, hp)} :
           /\ heap' = r.heap
           /\ last' = [op |-> "rootReducer", state |-> given, action |-> action,
                       result |-> r.val, before |-> hp]
    /\ UNCHANGED <<builderVars, compVars, mwVars>>

NextComp ==
    \/ \E c \in Comps : \E r \in Registrations(c) : Composing(c) /\ CompBlock(c, r.name, r.block)
    \/ \E c \in Comps : Composing(c) /\ CompBuild(c)
    \/ \E i \in RootInputs, a \in StoreActions : CallRootReducer(i.heap, i.state, a)
    \/ Discard

SpecComp == InitComp /\ [][NextComp]_vars

\* select of the Block a CompositionBuilder has built: this.select itself
compositeSelect(c) == compSelect[c]

\* the selector maps callers give to a composition: selectors of the full
\* composite state
CompSelectorMaps ==
    {[n \in {"counterValue"} |-> Selector("selCounter")],
     [n \in {"counterValue", "whole"} |->
        IF n = "counterValue" THEN Selector("selCounter") ELSE Selector("selSelf")]}

(* A composition with its selectors, and the builders of its blocks in use   *)
(* beside it.                                                               *)
NextCompSel ==
    \/ \E c \in Comps : \E r \in Registrations(c) : Composing(c) /\ CompBlock(c, r.name, r.block)
    \/ \E c \in Comps, m \in CompSelectorMaps : Composing(c) /\ CompSelectors(c, m)
    \/ \E c \in Comps : Composing(c) /\ CompBuild(c)
    \/ \E b \in Builders, m \in SelectorMaps : BuilderSelectors(b, m)
    \/ Discard

SpecCompSel == InitComp /\ [][NextCompSel]_vars

\* what callers register where, under names that are not the blocks' own:
\* inner holds the two blocks, root holds the counter block, the Block inner
\* has built and that Block behind mapContext
ActRegistrations(c) ==
    IF c = "inner"
        THEN {[name |-> "first", block |-> leafBlock("counter")],
              [name |-> "message", block |-> leafBlock("message")]}
        ELSE {[name |-> "main", block |-> leafBlock("counter")]}
                \cup (IF compBuilt["inner"] # NoBlock
                        THEN {[name |-> "sub", block |-> compBuilt["inner"]],
                              [name |-> "mapped", block |-> mapContext(compBuilt["inner"], "swap")]}
                        ELSE {})

\* the property paths callers read from root.actions, the last name being
\* the one called
ActCalled == {"inc", "toString", "sub"}
ActPaths ==
    {<<x>> : x \in ActCalled}
        \cup {<<n, x>> : n \in {"main", "sub", "mapped"}, x \in ActCalled}
        \cup {<<n, m, x>> : n \in {"main", "sub", "mapped"}, m \in {"first", "message"},
                            x \in ActCalled}

\* actions[path[1]]...[path[k]](...payload): what is called and what it
\* returns; calling an actions object, which is no function, throws
RECURSIVE callAt(_, _, _)
callAt(actions, path, payload) ==
    LET got == actionsGet(actions, Head(path))
    IN  IF Len(path) = 1
            THEN IF got.own THEN Thrown ELSE creatorCall(got.scope, got.property, payload)
            ELSE IF got.own
                    THEN callAt(got.value, Tail(path), payload)
                    ELSE Thrown

\* root.actions[...][...](...payload)
CallNestedCreator(path, payload) ==
    /\ compBuilt["root"] # NoBlock
    /\ last = NoCall
    /\ last' = [op |-> "nestedCreator", path |-> path, payload |-> payload,
                result |-> callAt(actionsOf(compBuilt["root"]), path, payload)]
    /\ UNCHANGED <<builderVars, compVars, heap, mwVars>>

(* A composition and the action creators reached through it.                *)
NextCompAct ==
    \/ \E c \in Comps : \E r \in ActRegistrations(c) : Composing(c) /\ CompBlock(c, r.name, r.block)
    \/ \E c \in Comps : Composing(c) /\ CompBuild(c)
    \/ \E q \in ActPaths, x \in Payloads : CallNestedCreator(q, x)
    \/ Discard

SpecCompAct == InitComp /\ [][NextCompAct]_vars

(* ------------------------------------------------------------------------ *)
(* lift and mapSelectors                                                    *)
(* ------------------------------------------------------------------------ *)

\* the selector trees callers lift: a function, a mapping of names to
\* functions, and mappings nested once and twice
SelTrees ==
    {Selector(f) : f \in {"selValue", "selDouble", "selSelf"}}
        \cup SelectorMaps
        \cup {[n \in {"main"} |-> m] : m \in SelectorMaps}
        \cup {[n \in {"main", "self"} |->
                IF n = "main" THEN [k \in {"deep"} |-> m] ELSE Selector("selSelf")] :
                    m \in SelectorMaps}

SelKeys == {"outer", "inner", "value"}
SelProjections ==
    {Key(k) : k \in SelKeys} \cup {Composed(Key(a), Key(b)) : a, b \in SelKeys}

\* the root states selectors are applied to: { outer: { inner: { value } } }
\* and its parts, in the memory that holds them
SelHeap ==
    <<[value |-> Num(MaxVal)],
      [inner |-> Ref(1), value |-> Num(0)],
      [outer |-> Ref(2), inner |-> Ref(1)],
      [outer |-> Ref(3)]>>
SelRoots == {Undef, Num(MaxVal)} \cup {Ref(a) : a \in DOMAIN SelHeap}

\* the key sequences that lead to the leaves of a tree, and the subtree at one
RECURSIVE LeafPaths(_)
LeafPaths(tree) ==
    IF IsFunction(tree) THEN {<<>>}
    ELSE UNION {{<<k>> \o q : q \in LeafPaths(tree[k])} : k \in DOMAIN tree}

RECURSIVE At(_, _)
At(tree, q) == IF q = <<>> THEN tree ELSE At(tree[Head(q)], Tail(q))

\* the elements of a set, one after the other
RECURSIVE SeqOf(_)
SeqOf(S) ==
    IF S = {} THEN <<>>
    ELSE LET k == CHOOSE x \in S : TRUE IN <<k>> \o SeqOf(S \ {k})

\* a selector tree as the caller holds it in memory: a function, or the
\* address of a mapping whose values are trees
RECURSIVE Store(_, _)
RECURSIVE StoreEntries(_, _, _)
StoreEntries(keys, tree, acc) ==
    IF keys = <<>> THEN acc
    ELSE LET r == Store(tree[Head(keys)], acc.heap)
         IN  StoreEntries(Tail(keys), tree,
                [obj |-> SetProp(acc.obj, Head(keys), r.val), heap |-> r.heap])

Store(tree, hp) ==
    IF IsFunction(tree) THEN [val |-> tree, heap |-> hp]
    ELSE LET e == StoreEntries(SeqOf(DOMAIN tree), tree, [obj |-> EmptyObject, heap |-> hp])
         IN  Alloc(e.heap, e.obj)

\* the tree at a value of memory hp
RECURSIVE Load(_, _)
Load(val, hp) ==
    IF IsFunction(val) THEN val ELSE [k \in DOMAIN hp[val.a] |-> Load(hp[val.a][k], hp)]

\* lift(tree, selectState) writing the lifted entries into tree itself
liftInPlace(tree, selectState, hp) ==
    IF IsFunction(tree)
        THEN [val |-> [fn |-> tree.fn, path |-> <<selectState>> \o tree.path], heap |-> hp]
        ELSE [val |-> tree,
              heap |-> [hp EXCEPT ![tree.a] =
                            [k \in DOMAIN @ |-> lift(@[k], selectState)]]]

\* lift(tree, selectState) in memory: Object.entries(tree).map(...) lifts the
\* values in turn, Object.fromEntries allocates the mapping returned
RECURSIVE liftIn(_, _, _)
RECURSIVE liftEntries(_, _, _, _)
liftEntries(keys, obj, selectState, acc) ==
    IF keys = <<>> THEN acc
    ELSE LET r == liftIn(obj[Head(keys)], selectState, acc.heap)
         IN  liftEntries(Tail(keys), obj, selectState,
                [obj |-> SetProp(acc.obj, Head(keys), r.val), heap |-> r.heap])

liftIn(tree, selectState, hp) ==
    IF IsFunction(tree)
        THEN [val |-> [fn |-> tree.fn, path |-> <<selectState>> \o tree.path], heap |-> hp]
        ELSE LET e == liftEntries(SeqOf(DOMAIN hp[tree.a]), hp[tree.a], selectState,
                        [obj |-> EmptyObject, heap |-> hp])
             IN  Alloc(e.heap, e.obj)

\* lift(tree, selectState), tree in the memory the caller has set up
CallLift(tree, hp, selectState) ==
    /\ last = NoCall
    /\ LET r == liftIn(tree, selectState, hp)
       IN  /\ heap' = r.heap
           /\ last' = [op |-> "lift", tree |-> tree, by |-> selectState,
                       result |-> r.val, before |-> hp]
    /\ UNCHANGED <<builderVars, compVars, mwVars>>

\* lift(lift(tree, p1), p2) beside lift(tree, s => p1(p2(s)))
CallLiftTwice(tree, p1, p2) ==
    /\ last = NoCall
    /\ last' = [op |-> "liftTwice", tree |-> tree, p1 |-> p1, p2 |-> p2,
                twice |-> lift(lift(tree, p1), p2),
                once |-> lift(tree, Composed(p1, p2))]
    /\ UNCHANGED <<builderVars, compVars, heap, mwVars>>

(* Selector trees, lifted.                                                  *)
NextSel ==
    \/ \E tree \in SelTrees, p1, p2 \in SelProjections : CallLiftTwice(tree, p1, p2)
    \/ \E tree \in SelTrees \cup {EmptyObject}, p \in SelProjections :
          \E t \in {Store(tree, InitHeap)} : CallLift(t.val, t.heap, p)
    \/ Discard

SpecSel == Init /\ [][NextSel]_vars

(* ------------------------------------------------------------------------ *)
(* ReduxBlock.middleware                                                    *)
(* ------------------------------------------------------------------------ *)

MaxDispatch == 2

\* the blocks with their effects, as a caller has composed them:
\*   counter = builder("counter", 0)...effects(f1).build()
\*   message = builder("message", { value: 0 })...effects(f2).effects(f1).build()
\*   inner   = composition("inner").block("message", message).effects(f1).build()
\*   root    = composition("root").block("counter", counter)
\*                 .block("inner", mapContext(inner, swap)).effects(f2).build()
EffectBlocksInit ==
    /\ live = Builders
    /\ reducers = [b \in Builders |->
            IF b = "counter"
                THEN SetProp(EmptyObject, "counter/inc", "inc")
                ELSE SetProp(EmptyObject, "message/set", "setValue")]
    /\ handlers = [b \in Builders |-> IF b = "counter" THEN <<"f1">> ELSE <<"f2", "f1">>]
    /\ select = [b \in Builders |-> EmptyObject]
    /\ built = [b \in Builders |-> TRUE]
    /\ blocks = [c \in Comps |->
            IF c = "inner"
                THEN <<[name |-> "message", block |-> leafBlock("message")]>>
                ELSE <<[name |-> "counter", block |-> leafBlock("counter")],
                       [name |-> "inner",
                        block |-> mapContext(
                            compositeBlock("inner",
                                <<[name |-> "message", block |-> leafBlock("message")]>>),
                            "swap")]>>]
    /\ creators = [c \in Comps |->
            [n \in {blocks[c][i].name : i \in DOMAIN blocks[c]} |->
                actionsOf(blocks[c][CHOOSE i \in DOMAIN blocks[c] : blocks[c][i].name = n].block)]]
    /\ compSelect = [c \in Comps |-> EmptyObject]
    /\ compHandlers = [c \in Comps |-> IF c = "inner" THEN <<"f1">> ELSE <<"f2">>]
    /\ compBuilt = [c \in Comps |-> compositeBlock(c, blocks[c])]

InitMw ==
    /\ EffectBlocksInit
    /\ heap = InitHeap
    /\ last = NoCall
    /\ MwInit

\* the blocks a caller creates a middleware of
MwBlocks ==
    {leafBlock(b) : b \in Builders}
        \cup {compBuilt[c] : c \in Comps}
        \cup {mapContext(leafBlock("counter"), m) : m \in Mappers}
        \cup {mapContext(compBuilt["root"], m) : m \in Mappers}

\* what a caller may hand to the per-action function
MwTypes ==
    {"counter/run", "message/stop", "inner/run", "root/stop", "counter/inc", "OTHER_ACTION"}
        \cup ObjectPrototype
MwActions ==
    {Undef, Null, Num(0), Num(1), Str("counter/run"), [payload |-> <<Num(0)>>]}
        \cup ActionsOf(MwTypes)

\* ReduxBlock.middleware(block, context): const effects = block.effects(context)
middleware(block, context) ==
    [block |-> block, context |-> context, effects |-> effectsOf(block, context)]

CreateMiddleware(block, context) ==
    /\ mw = NoMw
    /\ mw' = middleware(block, context)
    /\ calls' = calls \o effectsCalls(block, context)
    /\ UNCHANGED <<builderVars, compVars, heap, last, store, returned, pc, dispatched, stack, trace,
                   served>>

\* effects as the per-action function would see it were block.effects(context)
\* evaluated inside it
capturedAfresh(m) ==
    [table |-> effectsOf(m.block, m.context), calls |-> effectsCalls(m.block, m.context)]

\* effects as the per-action function sees it: the const of the enclosing
\* call, read without calling anything
captured(m) == [table |-> m.effects, calls |-> <<>>]

\* action && typeof action === "object"
Truthy(v) == v \notin {Undef, Null, Num(0), Str(""), NaN}
TypeofObject(v) == "t" \notin DOMAIN v \/ v = Null

\* the condition of the per-action function's if
fires(effects, action) ==
    /\ Truthy(action)
    /\ TypeofObject(action)
    /\ "type" \in DOMAIN action
    /\ has(effects, action.type)

\* "payload" in action ? action.payload : []
spreadPayload(action) == IF "payload" \in DOMAIN action THEN action.payload ELSE <<>>

\* where in the trace the events of one kind are
Events(ev) == {i \in DOMAIN trace : trace[i].ev = ev}

\* where control goes when the handler has returned, were next(action) in
\* an else branch
afterHandlerElse == "return"

\* where control goes when the handler has returned: to next(action)
afterHandler == "forward"

\* the per-action function with next(action) ahead of the handler: the store
\* applies the action, then the handler runs
DispatchForwardFirst(action) ==
    /\ mw # NoMw
    /\ store.made
    /\ pc \in {"idle", "returned", "thrown"}
    /\ served < MaxDispatch
    /\ served' = served + 1
    /\ dispatched' = action
    /\ calls' = calls
    /\ LET b == mw.block.of
           r == blockReducer(b, store.state, action, heap)
           forwarded ==
               <<[ev |-> "next", action |-> action],
                 [ev |-> "reduce", state |-> store.state, before |-> heap,
                  calls |-> reducerCalls(reducers[b], initial(b), store.state, action),
                  result |-> r.val]>>
       IN  /\ store' = [store EXCEPT !.state = r.val]
           /\ heap' = r.heap
           /\ IF fires(mw.effects, action)
                 THEN /\ trace' = Append(forwarded,
                                         [ev |-> "call",
                                          handler |-> Lookup(mw.effects, action.type),
                                          args |-> spreadPayload(action)])
                      /\ pc' = "handler"
                 ELSE /\ trace' = forwarded
                      /\ pc' = "return"
    /\ returned' = NoReturn
    /\ UNCHANGED <<builderVars, compVars, last, mw, stack>>

\* (action) => { if (...) effects[action.type](...payload) ...: up to the
\* call of the handler, or to next(action) when the condition fails
Dispatch(action) ==
    /\ mw # NoMw
    /\ pc \in {"idle", "returned", "thrown"}
    /\ served < MaxDispatch
    /\ served' = served + 1
    /\ dispatched' = action
    /\ LET effects == captured(mw)
       IN  /\ calls' = calls \o effects.calls
           /\ IF fires(effects.table, action)
                 THEN /\ trace' = <<[ev |-> "call",
                                     handler |-> Lookup(effects.table, action.type),
                                     args |-> spreadPayload(action)]>>
                      /\ pc' = "handler"
                 ELSE /\ trace' = <<>>
                      /\ pc' = "forward"
    /\ returned' = NoReturn
    /\ UNCHANGED <<builderVars, compVars, heap, last, store, mw, stack>>

\* the effect handler returns
HandlerReturns ==
    /\ pc = "handler"
    /\ trace' = Append(trace, [ev |-> "return"])
    /\ pc' = afterHandler
    /\ UNCHANGED <<builderVars, compVars, heap, last, store, returned, mw, calls, dispatched,
                   stack, served>>

\* the per-action function catching what the handler throws and going on
\* to next(action)
HandlerThrowsCaught ==
    /\ pc = "handler"
    /\ trace' = Append(trace, [ev |-> "throw"])
    /\ pc' = "forward"
    /\ UNCHANGED <<builderVars, compVars, heap, last, store, returned, mw, calls, dispatched,
                   stack, served>>

\* the effect handler throws: the exception leaves the per-action function
HandlerThrows ==
    /\ pc = "handler"
    /\ trace' = Append(trace, [ev |-> "throw"])
    /\ pc' = "thrown"
    /\ UNCHANGED <<builderVars, compVars, heap, last, store, returned, mw, calls, dispatched,
                   stack, served>>

\* what next(action) may return: the action, as the dispatch of a store
\* does, or nothing
NextReturns(action) == {action, Undef}

\* next(action), and its return
Forward ==
    /\ pc = "forward"
    /\ trace' = Append(trace, [ev |-> "next", action |-> dispatched])
    /\ \E r \in NextReturns(dispatched) : returned' = [returned EXCEPT !.next = <<r>>]
    /\ pc' = "return"
    /\ UNCHANGED <<builderVars, compVars, heap, last, store, mw, calls, dispatched, stack, served>>

\* the per-action function returns: its body ends after the statement
\* next(action); and it has no return statement
Return ==
    /\ pc = "return"
    /\ pc' = "returned"
    /\ returned' = [returned EXCEPT !.fn = <<Undef>>]
    /\ UNCHANGED <<builderVars, compVars, heap, last, store, mw, calls, dispatched, stack, trace, served>>

(* A middleware of a block, a composition or a block of mapContext, and the  *)
(* actions given to it.                                                     *)
NextMw ==
    \/ \E b \in MwBlocks, c \in Contexts : CreateMiddleware(b, c)
    \/ \E a \in MwActions : Dispatch(a)
    \/ HandlerReturns
    \/ HandlerThrows
    \/ Forward
    \/ Return

SpecMw == InitMw /\ [][NextMw]_vars

(* ------------------------------------------------------------------------ *)
(* Effect creators and the middleware                                       *)
(* ------------------------------------------------------------------------ *)

\* blocks with effects, one of them registered under the name of an effect:
\*   counter = builder("counter", 0)...effects(f1).build()
\*   message = builder("message", { value: 0 })...effects(f2).effects(f1).build()
\*   inner   = composition("inner").block("message", message)
\*                 .block("stop", counter).effects(f2).build()
\*   root    = composition("root").block("counter", counter)
\*                 .block("inner", inner).effects(f1).build()
FxBlocksInit ==
    /\ live = Builders
    /\ reducers = [b \in Builders |->
            IF b = "counter"
                THEN SetProp(EmptyObject, "counter/inc", "inc")
                ELSE SetProp(EmptyObject, "message/set", "setValue")]
    /\ handlers = [b \in Builders |-> IF b = "counter" THEN <<"f1">> ELSE <<"f2", "f1">>]
    /\ select = [b \in Builders |-> EmptyObject]
    /\ built = [b \in Builders |-> TRUE]
    /\ blocks = [c \in Comps |->
            IF c = "inner"
                THEN <<[name |-> "message", block |-> leafBlock("message")],
                       [name |-> "stop", block |-> leafBlock("counter")]>>
                ELSE <<[name |-> "counter", block |-> leafBlock("counter")],
                       [name |-> "inner",
                        block |-> compositeBlock("inner",
                            <<[name |-> "message", block |-> leafBlock("message")],
                              [name |-> "stop", block |-> leafBlock("counter")]>>)]>>]
    /\ creators = [c \in Comps |->
            [n \in {blocks[c][i].name : i \in DOMAIN blocks[c]} |->
                actionsOf(blocks[c][CHOOSE i \in DOMAIN blocks[c] : blocks[c][i].name = n].block)]]
    /\ compSelect = [c \in Comps |-> EmptyObject]
    /\ compHandlers = [c \in Comps |-> IF c = "inner" THEN <<"f2">> ELSE <<"f1">>]
    /\ compBuilt = [c \in Comps |-> compositeBlock(c, blocks[c])]

InitFx ==
    /\ FxBlocksInit
    /\ heap = InitHeap
    /\ last = NoCall
    /\ MwInit

\* the blocks callers take creators from and create middlewares of
FxBlocks == {leafBlock(b) : b \in Builders} \cup {compBuilt[c] : c \in Comps}
EffectNames == {"run", "stop"}

\* the arguments callers give an effect creator: none, one, or two
FxPayloads == {p \in Payloads : Len(p) <= 1} \cup {<<Num(0), Num(MaxVal)>>}

\* owner.actions[e](...payload)
CallEffectCreator(owner, e, payload) ==
    /\ last = NoCall
    /\ last' = [op |-> "effectCreator", owner |-> owner, e |-> e, payload |-> payload,
                result |-> callAt(actionsOf(owner), <<e>>, payload)]
    /\ UNCHANGED <<builderVars, compVars, heap, mwVars>>

\* the caller has an action from a creator to dispatch
Created == last.op = "effectCreator" /\ last.result # Thrown

(* Blocks with effects, the creators of their effect actions, and a          *)
(* middleware given the actions created.                                    *)
NextFx ==
    \/ \E b \in FxBlocks, c \in Contexts : CreateMiddleware(b, c)
    \/ \E b \in FxBlocks, e \in EffectNames, x \in FxPayloads : CallEffectCreator(b, e, x)
    \/ Created /\ Dispatch(last.result)
    \/ HandlerReturns
    \/ HandlerThrows
    \/ Forward
    \/ Return
    \/ pc \in {"idle", "returned", "thrown"} /\ Discard

SpecFx == InitFx /\ [][NextFx]_vars

(* ------------------------------------------------------------------------ *)
(* The effects table of a composition                                       *)
(* ------------------------------------------------------------------------ *)

\* a composition with one block registered twice, once behind mapContext:
\*   counter = builder("counter", 0)...effects(f1).build()
\*   message = builder("message", { value: 0 })...effects(f2).effects(f1).build()
\*   inner   = composition("inner").block("message", message).effects(f2).build()
\*   root    = composition("root").block("counter", counter).block("inner", inner)
\*                 .block("again", mapContext(counter, swap)).effects(f1).build()
UnionBlocksInit ==
    /\ live = Builders
    /\ reducers = [b \in Builders |->
            IF b = "counter"
                THEN SetProp(EmptyObject, "counter/inc", "inc")
                ELSE SetProp(EmptyObject, "message/set", "setValue")]
    /\ handlers = [b \in Builders |-> IF b = "counter" THEN <<"f1">> ELSE <<"f2", "f1">>]
    /\ select = [b \in Builders |-> EmptyObject]
    /\ built = [b \in Builders |-> TRUE]
    /\ blocks = [c \in Comps |->
            IF c = "inner"
                THEN <<[name |-> "message", block |-> leafBlock("message")]>>
                ELSE <<[name |-> "counter", block |-> leafBlock("counter")],
                       [name |-> "inner",
                        block |-> compositeBlock("inner",
                            <<[name |-> "message", block |-> leafBlock("message")]>>)],
                       [name |-> "again",
                        block |-> mapContext(leafBlock("counter"), "swap")]>>]
    /\ creators = [c \in Comps |->
            [n \in {blocks[c][i].name : i \in DOMAIN blocks[c]} |->
                actionsOf(blocks[c][CHOOSE i \in DOMAIN blocks[c] : blocks[c][i].name = n].block)]]
    /\ compSelect = [c \in Comps |-> EmptyObject]
    /\ compHandlers = [c \in Comps |-> IF c = "inner" THEN <<"f2">> ELSE <<"f1">>]
    /\ compBuilt = [c \in Comps |-> compositeBlock(c, blocks[c])]

InitUnion ==
    /\ UnionBlocksInit
    /\ heap = InitHeap
    /\ last = NoCall
    /\ MwInit

\* composite.effects(context)
CallCompEffects(c, context) ==
    /\ last = NoCall
    /\ last' = [op |-> "compEffects", block |-> compBuilt[c], context |-> context,
                result |-> effectsOf(compBuilt[c], context)]
    /\ UNCHANGED <<builderVars, compVars, heap, mwVars>>

\* the actions the creators of the blocks make, and one of no block
UnionTypes ==
    {"counter/run", "counter/inc", "message/run", "message/stop",
     "inner/run", "inner/stop", "root/run", "OTHER_ACTION"}
UnionActions ==
    {[type |-> t] : t \in UnionTypes}
        \cup {[type |-> t, payload |-> <<x>>] : t \in UnionTypes, x \in Args}

(* A composition, its effects function, and a middleware of it given the    *)
(* effect actions of its blocks.                                            *)
NextUnion ==
    \/ \E c \in Comps, x \in Contexts : CallCompEffects(c, x)
    \/ \E c \in Comps, x \in Contexts : CreateMiddleware(compBuilt[c], x)
    \/ \E a \in UnionActions : Dispatch(a)
    \/ HandlerReturns
    \/ HandlerThrows
    \/ Forward
    \/ Return
    \/ Discard

SpecUnion == InitUnion /\ [][NextUnion]_vars

(* ------------------------------------------------------------------------ *)
(* A store on a block's reducer with the block's middleware installed       *)
(* ------------------------------------------------------------------------ *)

\* blocks with an action and an effect of one name:
\*   counter = builder("counter", 0).action("run", inc).action("inc", sum)
\*                 .effects(f1).build()
\*   message = builder("message", { value: 0 }).action("stop", setValue)
\*                 .action("set", same).effects(f2).build()
StoreBlocksInit ==
    /\ live = Builders
    /\ reducers = [b \in Builders |->
            IF b = "counter"
                THEN SetProp(SetProp(EmptyObject, "counter/run", "inc"), "counter/inc", "sum")
                ELSE SetProp(SetProp(EmptyObject, "message/stop", "setValue"),
                             "message/set", "same")]
    /\ handlers = [b \in Builders |-> IF b = "counter" THEN <<"f1">> ELSE <<"f2">>]
    /\ select = [b \in Builders |-> EmptyObject]
    /\ built = [b \in Builders |-> TRUE]
    /\ CompInit

InitStore ==
    /\ StoreBlocksInit
    /\ heap = InitHeap
    /\ last = NoCall
    /\ MwInit

\* configureStore({ reducer: block.reducer, middleware: [middleware(block,
\* context)] }): the store starts with what the reducer returns for no state
CreateStore(b, context) ==
    /\ mw = NoMw
    /\ ~store.made
    /\ mw' = middleware(leafBlock(b), context)
    /\ calls' = calls \o effectsCalls(leafBlock(b), context)
    /\ LET r == blockReducer(b, Undef, [type |-> "@@redux/INIT"], heap)
       IN  /\ store' = [made |-> TRUE, state |-> r.val]
           /\ heap' = r.heap
    /\ UNCHANGED <<builderVars, compVars, last, pc, dispatched, stack, trace, served, returned>>

\* next(action) where next is the store's own dispatch: the store's state
\* becomes reducer(state, action)
StoreNext ==
    /\ pc = "forward"
    /\ store.made
    /\ LET b == mw.block.of
           r == blockReducer(b, store.state, dispatched, heap)
       IN  /\ store' = [store EXCEPT !.state = r.val]
           /\ heap' = r.heap
           /\ trace' = trace \o
                <<[ev |-> "next", action |-> dispatched],
                  [ev |-> "reduce", state |-> store.state, before |-> heap,
                   calls |-> reducerCalls(reducers[b], initial(b), store.state, dispatched),
                   result |-> r.val]>>
    /\ returned' = [returned EXCEPT !.next = <<dispatched>>]
    /\ pc' = "return"
    /\ UNCHANGED <<builderVars, compVars, last, mw, calls, dispatched, stack, served>>

\* the actions dispatched to the store: of both blocks, with and without an
\* effect, with and without an action handler
StoreDispatchTypes ==
    {"counter/run", "counter/inc", "counter/stop",
     "message/stop", "message/set", "message/run", "OTHER_ACTION"}

(* A store of one block: its creation, and the actions dispatched to it     *)
(* through the middleware.                                                  *)
NextStore ==
    \/ \E b \in Builders, c \in Contexts : CreateStore(b, c)
    \/ \E a \in ActionsOf(StoreDispatchTypes) : store.made /\ Dispatch(a)
    \/ HandlerReturns
    \/ HandlerThrows
    \/ StoreNext
    \/ Return

SpecStore == InitStore /\ [][NextStore]_vars

(* ------------------------------------------------------------------------ *)
(* An effect handler that dispatches                                        *)
(* ------------------------------------------------------------------------ *)

\* how many calls of the per-action function may wait for their handler
MaxDepth == 2

\* how many actions the handlers of one dispatch may dispatch in all
MaxInner == 2

\* the actions given to the store, by a caller and by a handler
ReentryActions ==
    {[type |-> t] : t \in StoreDispatchTypes \ {"counter/stop"}}
        \cup {[type |-> t, payload |-> <<Num(MaxVal)>>] : t \in {"counter/inc", "message/set"}}

\* the handler running calls ctx.dispatch(action), which is the store's
\* dispatch: the per-action function is entered again while the handler waits
HandlerDispatches(action) ==
    /\ pc = "handler"
    /\ store.made
    /\ Len(stack) < MaxDepth
    /\ Cardinality(Events("dispatch")) < MaxInner
    /\ stack' = Append(stack, dispatched)
    /\ dispatched' = action
    /\ LET effects == captured(mw)
       IN  /\ calls' = calls \o effects.calls
           /\ IF fires(effects.table, action)
                 THEN /\ trace' = trace \o
                            <<[ev |-> "dispatch", action |-> action],
                              [ev |-> "call",
                               handler |-> Lookup(effects.table, action.type),
                               args |-> spreadPayload(action)]>>
                      /\ pc' = "handler"
                 ELSE /\ trace' = Append(trace, [ev |-> "dispatch", action |-> action])
                      /\ pc' = "forward"
    /\ returned' = NoReturn
    /\ UNCHANGED <<builderVars, compVars, heap, last, store, mw, served>>

\* the dispatch a handler called returns: the handler goes on
InnerReturns ==
    /\ pc = "returned"
    /\ stack # <<>>
    /\ pc' = "handler"
    /\ dispatched' = stack[Len(stack)]
    /\ stack' = SubSeq(stack, 1, Len(stack) - 1)
    /\ trace' = Append(trace, [ev |-> "back"])
    /\ UNCHANGED <<builderVars, compVars, heap, last, store, returned, mw, calls, served>>

\* the dispatch a handler called throws: the handler catches the exception
\* and goes on, or lets it through
InnerThrows ==
    /\ pc = "thrown"
    /\ stack # <<>>
    /\ pc' \in {"handler", "thrown"}
    /\ dispatched' = stack[Len(stack)]
    /\ stack' = SubSeq(stack, 1, Len(stack) - 1)
    /\ trace' = Append(trace, [ev |-> IF pc' = "handler" THEN "caught" ELSE "unwind"])
    /\ UNCHANGED <<builderVars, compVars, heap, last, store, returned, mw, calls, served>>

(* A store of one block whose effect handlers dispatch to the store.        *)
NextReentry ==
    \/ \E b \in Builders, c \in Contexts : CreateStore(b, c)
    \/ \E a \in ReentryActions : store.made /\ stack = <<>> /\ Dispatch(a)
    \/ \E a \in ReentryActions : HandlerDispatches(a)
    \/ HandlerReturns
    \/ HandlerThrows
    \/ StoreNext
    \/ Return
    \/ InnerReturns
    \/ InnerThrows

SpecReentry == InitStore /\ [][NextReentry]_vars

(* ------------------------------------------------------------------------ *)
(* A CompositionBuilder in use after build()                                *)
(* ------------------------------------------------------------------------ *)

\* built blocks with an action, an effects factory and a selector each, and
\* compositions with nothing registered
LateBlocksInit ==
    /\ live = Builders
    /\ reducers = [b \in Builders |->
            IF b = "counter"
                THEN SetProp(EmptyObject, "counter/inc", "inc")
                ELSE SetProp(EmptyObject, "message/set", "setValue")]
    /\ handlers = [b \in Builders |-> IF b = "counter" THEN <<"f1">> ELSE <<"f2">>]
    /\ select = [b \in Builders |-> Assign(EmptyObject, [n \in {"value"} |-> Selector("selValue")])]
    /\ built = [b \in Builders |-> TRUE]
    /\ CompInit

InitLate ==
    /\ LateBlocksInit
    /\ heap = InitHeap
    /\ last = NoCall
    /\ MwInit

(* A CompositionBuilder given block(), selectors(), effects() and build()   *)
(* in any order, build() more than once.                                    *)
NextLate ==
    \/ \E c \in Comps : \E r \in Registrations(c) : CompBlock(c, r.name, r.block)
    \/ \E c \in Comps, m \in CompSelectorMaps : CompSelectors(c, m)
    \/ \E c \in Comps : CompEffects(c, "f1")
    \/ \E c \in Comps : CompBuild(c)

SpecLate == InitLate /\ [][NextLate]_vars

(* ------------------------------------------------------------------------ *)
(* mapSelectors                                                             *)
(* ------------------------------------------------------------------------ *)

\* ReduxBlock.mapSelectors(block, selectState): the Block it returns, its
\* actions, reducer and effects those of block, its select lifted now
mapSelectors(block, selectState) ==
    [actions |-> actionsOf(block),
     reducer |-> [of |-> block],
     effects |-> [of |-> block],
     select |-> lift(selectOf(block), selectState)]

\* the blocks a caller maps: the built blocks, and the compositions built
MappedBlocks ==
    {leafBlock(b) : b \in {x \in Builders : built[x]}}
        \cup {compBuilt[c] : c \in {x \in Comps : compBuilt[x] # NoBlock}}

\* the projections callers map selectors by
MapProjections == {Key("inner"), Key("outer"), Composed(Key("inner"), Key("outer"))}

\* mapped = ReduxBlock.mapSelectors(block, selectState)
CallMapSelectors(block, selectState) ==
    /\ last = NoCall
    /\ last' = [op |-> "mapSelectors", block |-> block, by |-> selectState,
                result |-> mapSelectors(block, selectState)]
    /\ UNCHANGED <<builderVars, compVars, heap, mwVars>>

(* Blocks and compositions mapped by mapSelectors, and the builders of the  *)
(* blocks in use beside the mapped Block the caller holds.                  *)
NextMapSel ==
    \/ \E c \in Comps : \E r \in Registrations(c) : Composing(c) /\ CompBlock(c, r.name, r.block)
    \/ \E c \in Comps : Composing(c) /\ CompBuild(c)
    \/ \E b \in MappedBlocks, p \in MapProjections : CallMapSelectors(b, p)
    \/ \E b \in Builders, m \in SelectorMaps : BuilderSelectors(b, m)
    \/ Discard

SpecMapSel == InitComp /\ [][NextMapSel]_vars

(* ------------------------------------------------------------------------ *)
(* Reducers whose handlers throw                                            *)
(* ------------------------------------------------------------------------ *)

\* the two blocks with handlers that throw:
\*   builder("counter", 0).action("inc", guard).action("set", set).build()
\*   builder("message", { value: 0 }).action("set", setValue).action("inc", boom).build()
ThrowingBlocksInit ==
    /\ live = Builders
    /\ reducers = [b \in Builders |->
            IF b = "counter"
                THEN SetProp(SetProp(EmptyObject, "counter/inc", "guard"), "counter/set", "set")
                ELSE SetProp(SetProp(EmptyObject, "message/set", "setValue"),
                             "message/inc", "boom")]
    /\ handlers = [b \in Builders |-> <<>>]
    /\ select = [b \in Builders |-> EmptyObject]
    /\ built = [b \in Builders |-> TRUE]

InitThrow ==
    /\ ThrowingBlocksInit
    /\ CompInit
    /\ heap = InitHeap
    /\ last = NoCall
    /\ MwInit

\* the actions handed to the reducers: of both blocks and of none, without
\* and with one argument
ThrowActions ==
    {[type |-> b \o "/" \o n] : b \in Builders, n \in ActionNames}
        \cup {[type |-> "counter/set", payload |-> <<x>>] : x \in Args}
        \cup {[type |-> "OTHER_ACTION"]}

(* Blocks with throwing handlers, alone and composed, and calls of their    *)
(* reducers.                                                                *)
NextThrow ==
    \/ \E c \in Comps : \E r \in Registrations(c) : Composing(c) /\ CompBlock(c, r.name, r.block)
    \/ \E c \in Comps : Composing(c) /\ CompBuild(c)
    \/ \E i \in RootInputs, a \in ThrowActions : CallRootReducer(i.heap, i.state, a)
    \/ \E b \in Builders : \E hp \in InputHeaps(b) :
          \E s \in StatesOf(b, hp), a \in ThrowActions : CallReducer(b, hp, s, a)
    \/ Discard

SpecThrow == InitThrow /\ [][NextThrow]_vars

(* ------------------------------------------------------------------------ *)
(* Root's reducer folded over a sequence of actions                         *)
(* ------------------------------------------------------------------------ *)

MaxFold == 3

\* the actions of the sequence: of both blocks, of none, and of an inherited
\* name, with an argument and without
FoldActions ==
    {[type |-> t] : t \in {"counter/inc", "counter/set", "message/inc", "OTHER_ACTION"}
                            \cup ObjectPrototype}
        \cup {[type |-> t, payload |-> <<x>>] : t \in {"counter/set", "message/set"}, x \in Args}

\* nothing folded yet: undefined for root and for each child on its own
FoldStart ==
    [steps |-> 0, state |-> Undef,
     alone |-> [i \in DOMAIN compBuilt["root"].reducers |-> [val |-> Undef, heap |-> InitHeap]]]

\* state = root.reducer(state, action), and beside it, for each child of
\* root, child.reducer(own, action) on the child's state folded on its own
FoldRoot(action) ==
    /\ compBuilt["root"] # NoBlock
    /\ last = NoCall \/ last.op = "fold"
    /\ LET from == IF last = NoCall THEN FoldStart ELSE last
           collected == compBuilt["root"].reducers
           r == blockReduce(compBuilt["root"], from.state, action, heap)
       IN  /\ from.steps < MaxFold
           /\ heap' = r.heap
           /\ last' = [op |-> "fold", steps |-> from.steps + 1, state |-> r.val,
                       alone |-> [i \in DOMAIN collected |->
                            blockReduce(collected[i].block, from.alone[i].val, action,
                                        from.alone[i].heap)]]
    /\ UNCHANGED <<builderVars, compVars, mwVars>>

(* A composition, and its reducer folded over actions from undefined.       *)
NextFold ==
    \/ \E c \in Comps : \E r \in Registrations(c) : Composing(c) /\ CompBlock(c, r.name, r.block)
    \/ \E c \in Comps : Composing(c) /\ CompBuild(c)
    \/ \E a \in FoldActions : FoldRoot(a)
    \/ Discard

SpecFold == InitComp /\ [][NextFold]_vars

(* ------------------------------------------------------------------------ *)
(* Claims about a block, its reducer and its action creators                *)
(* ------------------------------------------------------------------------ *)

\* C1: the reducer of a built Block returns the state it was given, itself,
\* for every action whose type has no handler registered through action(),
\* whatever string the type is and with or without a payload.
C1_NoOpInvariance ==
    (/\ last.op = "reducer"
     /\ last.state # Undef
     /\ ~has(reducers[last.block], last.action.type))
        => last.result = last.state

\* C1 on the types no plain object inherits a property for: there the state
\* comes back itself
C1_NoOpOnUninheritedTypes ==
    (/\ last.op = "reducer"
     /\ last.state # Undef
     /\ ~has(reducers[last.block], last.action.type)
     /\ last.action.type \notin ObjectPrototype)
        => last.result = last.state /\ heap = last.before

\* C7: once build() has returned a Block, no call on the builder changes what
\* the Block's reducer returns, what its effects(context) table holds, or
\* what its select map holds.
C7_BuiltBlockImmutable ==
    [][\A b \in Builders : built[b] =>
          /\ \A hp \in InputHeaps(b) : \A s \in StatesOf(b, hp), a \in ActionsOf(TypesOf(b)) :
                blockReducer(b, s, a, hp)' = blockReducer(b, s, a, hp)
          /\ \A c \in Contexts : blockEffects(b, c)' = blockEffects(b, c)
          /\ blockSelect(b)' = blockSelect(b)]_vars

\* C8: for a scope N and a property p that is no own property of the proxy's
\* target, actions.p() is { type: "N/p" } with no payload key and
\* actions.p(a1..ak), k >= 1, is { type: "N/p", payload: [a1..ak] } in call order.
C8_CreatorShape ==
    last.op = "creator" =>
        /\ last.result.type = last.block \o "/" \o last.property
        /\ Len(last.payload) = 0 => DOMAIN last.result = {"type"}
        /\ Len(last.payload) >= 1 =>
              /\ DOMAIN last.result = {"type", "payload"}
              /\ last.result.payload = last.payload

C8_Witness ==
    /\ last.op = "creator"
    /\ last.property \in ObjectPrototype
    /\ Len(last.payload) = 2
    /\ last.payload[1] # last.payload[2]

\* C9, as claimed: for a block N with handler h registered under n,
\* reducer(s, actions.n(a1..ak)) is h(s, a1..ak) for every state s and every
\* k >= 0.
C9_HandlerOnEveryState ==
    \A n \in ActionNames, x \in Payloads :
        (/\ last.op = "reducer"
         /\ last.action = creatorCall(last.block, n, x)
         /\ has(reducers[last.block], last.block \o "/" \o n))
            => [val |-> last.result, heap |-> heap]
                 = Apply(reducers[last.block][last.block \o "/" \o n], last.state, x, last.before)

\* C9, amended: for a block N with handler h registered under n,
\* reducer(s, actions.n(a1..ak)) is h(s, a1..ak) for every state s other than
\* undefined and every k >= 0, and h(initial, a1..ak) for s undefined: the
\* handler receives the state alone without a payload, the spread payload
\* elements otherwise.
C9_ReducerAppliesHandler ==
    \A n \in ActionNames, x \in Payloads :
        (/\ last.op = "reducer"
         /\ last.action = creatorCall(last.block, n, x)
         /\ has(reducers[last.block], last.block \o "/" \o n))
            => [val |-> last.result, heap |-> heap]
                 = Apply(reducers[last.block][last.block \o "/" \o n],
                         IF last.state = Undef THEN initial(last.block) ELSE last.state,
                         x, last.before)

C9_Witness ==
    /\ last.op = "reducer"
    /\ last.block = "counter"
    /\ last.state = Num(1)
    /\ has(reducers["counter"], "counter/set")
    /\ reducers["counter"]["counter/set"] = "sum"
    /\ last.action = [type |-> "counter/set", payload |-> <<Num(0), Num(1)>>]
    /\ last.result = Num(2)

\* C11: for a built Block, reducer(undefined, a) returns the block's
\* initial value for every action a whose type has no handler registered
\* through action().
C11_InitialOnUnhandled ==
    (/\ last.op = "reducer"
     /\ last.state = Undef
     /\ ~has(reducers[last.block], last.action.type))
        => last.result = initial(last.block)

\* C11 for the types that are not inherited from Object.prototype either:
\* the initial value, and nothing allocated
C11_InitialOnUninheritedTypes ==
    (/\ last.op = "reducer"
     /\ last.state = Undef
     /\ ~has(reducers[last.block], last.action.type)
     /\ last.action.type \notin ObjectPrototype)
        => (last.result = initial(last.block) /\ heap = last.before)

(* ------------------------------------------------------------------------ *)
(* Claims about the reducer of a composition                                *)
(* ------------------------------------------------------------------------ *)

\* the children root's reducer runs, and what the reducer of child i returns
\* on its own for the slot of the state and the action of the last call
Collected == compBuilt["root"].reducers
SlotOf(i) == slot(last.state, Collected[i].name, last.before)
ChildAlone(i) == blockReduce(Collected[i].block, SlotOf(i), last.action, last.before)
Changed == {i \in DOMAIN Collected : ChildAlone(i).val # SlotOf(i)}

\* a value with the objects it refers to in place of their addresses
RECURSIVE Deep(_, _)
Deep(v, hp) ==
    IF v.t = "object" THEN [k \in DOMAIN hp[v.a] |-> Deep(hp[v.a][k], hp)] ELSE v

\* C2: when an action changes the slice of one child A only, the composite
\* reducer returns a new object whose slot A is A's updated state and whose
\* every other key, the unchanged children's slots among them, holds what it
\* held in the previous state.
C2_ReferentialStability ==
    (last.op = "rootReducer" /\ last.state.t = "object") =>
        \A i \in Changed : Changed = {i} =>
            /\ last.result # last.state
            /\ last.result.t = "object"
            /\ DOMAIN heap[last.result.a]
                  = (DOMAIN last.before[last.state.a]) \cup {Collected[i].name}
            /\ Deep(heap[last.result.a][Collected[i].name], heap)
                  = Deep(ChildAlone(i).val, ChildAlone(i).heap)
            /\ \A k \in (DOMAIN last.before[last.state.a]) \ {Collected[i].name} :
                  heap[last.result.a][k] = last.before[last.state.a][k]

\* message/set changes the inner composition alone; the counter slot and the
\* key no block owns come back as they were
C2_Witness ==
    /\ last.op = "rootReducer"
    /\ last.state.t = "object"
    /\ Len(Collected) = 2
    /\ last.action = [type |-> "message/set", payload |-> <<Num(1)>>]
    /\ \E i \in Changed : Changed = {i} /\ Collected[i].name = "inner"
    /\ DOMAIN last.before[last.state.a] = {"counter", "extra", "inner"}
    /\ heap[last.result.a]["counter"] = Num(MaxVal)
    /\ heap[last.result.a]["extra"] = Num(0)
    /\ heap[last.result.a]["inner"] # last.before[last.state.a]["inner"]

StrictlyEqual(a, b) == a = b /\ a # NaN

\* the children whose reducer returns a value not === to their slot
ChangedStrictly == {i \in DOMAIN Collected : ~StrictlyEqual(ChildAlone(i).val, SlotOf(i))}

Names(collected) == {collected[i].name : i \in DOMAIN collected}
Child(collected, n) == (CHOOSE i \in DOMAIN collected : collected[i].name = n)

\* val is the state of block in which every block holds its initial state
RECURSIVE IsInitial(_, _, _)
IsInitial(val, block, hp) ==
    IF block.kind = "block"
        THEN val = initial(block.of)
        ELSE /\ val.t = "object"
             /\ DOMAIN hp[val.a] = Names(block.reducers)
             /\ \A i \in DOMAIN block.reducers :
                   IsInitial(hp[val.a][block.reducers[i].name], block.reducers[i].block, hp)

\* there is a block under every composition of the tree
RECURSIVE Populated(_)
Populated(block) ==
    block.kind = "block" \/
        (block.reducers # <<>> /\ \A i \in DOMAIN block.reducers : Populated(block.reducers[i].block))

\* no reducer of the tree finds a handler under the type
RECURSIVE NoHandler(_, _)
NoHandler(block, type) ==
    IF block.kind = "block"
        THEN Lookup(reducers[block.of], type) = "undefined"
        ELSE \A i \in DOMAIN block.reducers : NoHandler(block.reducers[i].block, type)

\* C10, as claimed: with undefined state and any action, a composite reducer
\* returns an object that maps every registered child name to that child's
\* initial state, recursively. (Stated for the action types off
\* Object.prototype, where C1 does not interfere.)
C10_InitialStateAnyAction ==
    (/\ last.op = "rootReducer"
     /\ last.state = Undef
     /\ Populated(compBuilt["root"])
     /\ last.action.type \notin ObjectPrototype)
        => IsInitial(last.result, compBuilt["root"], heap)

\* C10, amended: with undefined state and an action for which no child's
\* reducer finds a handler, a composite reducer over at least one block at
\* every level returns an object that maps every registered child name to
\* that child's initial state, recursively.
C10_InitialState ==
    (/\ last.op = "rootReducer"
     /\ last.state = Undef
     /\ Populated(compBuilt["root"])
     /\ NoHandler(compBuilt["root"], last.action.type))
        => IsInitial(last.result, compBuilt["root"], heap)

C10_Witness ==
    /\ last.op = "rootReducer"
    /\ last.state = Undef
    /\ last.action.type = "OTHER_ACTION"
    /\ Names(Collected) = {"counter", "inner"}
    /\ Names(Collected[Child(Collected, "inner")].block.reducers) = {"counter", "message"}
    /\ last.result.t = "object"
    /\ heap[last.result.a]["counter"] = Num(0)
    /\ heap[heap[last.result.a]["inner"].a]["message"] = Ref(1)

(* ------------------------------------------------------------------------ *)
(* Claims about the middleware                                              *)
(* ------------------------------------------------------------------------ *)

\* C4: the per-action function calls next exactly once with the action it
\* was given, whether or not an effect handler fired for it, and not before
\* the handler, if one fired, has returned: it has not called next while the
\* handler runs, and when it returns it has called next once, with that
\* action, after the handler's return.
C4_UnconditionalForwarding ==
    /\ Cardinality(Events("next")) <= 1
    /\ \A i \in Events("next") :
          /\ trace[i].action = dispatched
          /\ \A j \in Events("call") : \E k \in Events("return") : j < k /\ k < i
    /\ pc = "handler" => Events("next") = {}
    /\ pc \in {"return", "returned"} => Cardinality(Events("next")) = 1

\* a handler fired and returned, and next was called after it
C4_Witness ==
    /\ pc = "returned"
    /\ Len(trace) = 3
    /\ trace[1].ev = "call"
    /\ trace[2].ev = "return"
    /\ trace[3] = [ev |-> "next", action |-> dispatched]
    /\ "payload" \in DOMAIN dispatched

\* C5: an effect handler is invoked if and only if the action is a non-null
\* object whose type is an own key of the table; it is then invoked once,
\* with the payload elements as arguments in order, or with no arguments
\* when the action has no payload field.
C5_HandlerIffOwnKey ==
    pc # "idle" =>
        LET object == dispatched \notin {Undef, Null} /\ "t" \notin DOMAIN dispatched
            own == object /\ "type" \in DOMAIN dispatched
                          /\ dispatched.type \in DOMAIN mw.effects
        IN  /\ Events("call") # {} <=> own
            /\ Cardinality(Events("call")) <= 1
            /\ \A i \in Events("call") :
                  /\ trace[i].handler = mw.effects[dispatched.type]
                  /\ trace[i].args = IF "payload" \in DOMAIN dispatched
                                        THEN dispatched.payload ELSE <<>>

\* a handler of the mapped inner composition, invoked with two arguments
C5_Witness ==
    /\ pc = "returned"
    /\ mw.block = compBuilt["root"]
    /\ "type" \in DOMAIN dispatched
    /\ dispatched.type = "inner/run"
    /\ Cardinality(Events("call")) = 1
    /\ trace[1].handler = [fn |-> "f1.run", ctx |-> Adapt("swap", mw.context)]
    /\ Len(trace[1].args) = 2
    /\ trace[1].args[1] # trace[1].args[2]

\* no handler for a type inherited from Object.prototype
C5_WitnessInherited ==
    /\ pc = "returned"
    /\ dispatched = [type |-> "toString"]
    /\ Events("call") = {}

\* C6: block.effects(context) is called once, when the middleware is
\* created; the actions given to the middleware later, matching or not,
\* cause no call of it, of a factory, of a child's effects function or of a
\* mapper: the calls made are those of one evaluation of
\* block.effects(context), each factory registration and mapper once.
C6_FactoryOnce ==
    mw # NoMw =>
        /\ calls = effectsCalls(mw.block, mw.context)
        /\ Cardinality({i \in DOMAIN calls :
                calls[i] = [fn |-> "effects", of |-> mw.block, ctx |-> mw.context]}) = 1
        /\ Cardinality({i \in DOMAIN calls : calls[i].fn \in Mappers})
              = (IF mw.block.kind = "mapContext" THEN 1 ELSE 0)
                  + (IF mw.block \in {compBuilt["root"], mapContext(compBuilt["root"], "swap")}
                        THEN 1 ELSE 0)

\* two actions given to a middleware of the mapped root, the last matching
C6_Witness ==
    /\ mw # NoMw
    /\ mw.block = mapContext(compBuilt["root"], "swap")
    /\ served = MaxDispatch
    /\ pc = "returned"
    /\ Events("call") # {}
    /\ Len(calls) = 13

(* ------------------------------------------------------------------------ *)
(* Claims about selectors                                                   *)
(* ------------------------------------------------------------------------ *)

\* C12: for any selector tree, projections p1 and p2 and root state r, every
\* leaf of lift(lift(tree, p1), p2) applied to r yields what the
\* corresponding leaf of lift(tree, s => p1(p2(s))) yields, the leaf of tree
\* applied to p1(p2(r)).
C12_LiftComposition ==
    last.op = "liftTwice" =>
        /\ LeafPaths(last.twice) = LeafPaths(last.tree)
        /\ LeafPaths(last.once) = LeafPaths(last.tree)
        /\ \A q \in LeafPaths(last.tree), r \in SelRoots :
              /\ Select(At(last.twice, q), r, SelHeap) = Select(At(last.once, q), r, SelHeap)
              /\ Select(At(last.twice, q), r, SelHeap)
                    = Select(At(last.tree, q),
                             Project(last.p1, Project(last.p2, r, SelHeap), SelHeap), SelHeap)

\* state => state.value lifted through inner, then outer, on
\* { outer: { inner: { value } } }
C12_Witness ==
    /\ last.op = "liftTwice"
    /\ last.tree = [n \in {"value"} |-> Selector("selValue")]
    /\ last.p1 = Key("inner")
    /\ last.p2 = Key("outer")
    /\ Select(last.twice["value"], Ref(3), SelHeap) = Num(MaxVal)
    /\ Select(last.once["value"], Ref(3), SelHeap) = Num(MaxVal)
    /\ last.twice # last.once

\* two trees have the same keys at the same nesting depth
RECURSIVE SameShape(_, _)
SameShape(a, b) ==
    IF IsFunction(a) \/ IsFunction(b)
        THEN IsFunction(a) /\ IsFunction(b)
        ELSE DOMAIN a = DOMAIN b /\ \A k \in DOMAIN a : SameShape(a[k], b[k])

\* C13: lift(tree, project) returns a tree with the keys of tree at the same
\* nesting depth, in which every leaf f is replaced by a function computing
\* f(project(newState)); the mappings of the input tree, and everything else
\* in memory, are as they were before the call.
C13_LiftPreservesShape ==
    last.op = "lift" =>
        LET given == Load(last.tree, last.before)
            lifted == Load(last.result, heap)
        IN  /\ SubSeq(heap, 1, Len(last.before)) = last.before
            /\ Load(last.tree, heap) = given
            /\ SameShape(lifted, given)
            /\ \A q \in LeafPaths(given), r \in SelRoots :
                  Select(At(lifted, q), r, SelHeap)
                    = Select(At(given, q), Project(last.by, r, SelHeap), SelHeap)

\* lift in memory returns the tree lift returns
C13_LiftInIsLift ==
    last.op = "lift" =>
        Load(last.result, heap) = lift(Load(last.tree, last.before), last.by)

\* a mapping nested twice is lifted into new mappings
C13_Witness ==
    /\ last.op = "lift"
    /\ ~IsFunction(last.tree)
    /\ last.result.a > Len(last.before)
    /\ <<"main", "deep", "double">> \in LeafPaths(Load(last.result, heap))
    /\ <<"self">> \in LeafPaths(Load(last.result, heap))
    /\ last.by = Composed(Key("inner"), Key("outer"))
    /\ Select(At(Load(last.result, heap), <<"main", "deep", "double">>), Ref(4), SelHeap)
          = Num(2 * MaxVal)
    /\ Select(At(Load(last.result, heap), <<"self">>), Ref(4), SelHeap) = Ref(1)

\* the composite states selectors are applied to:
\* { counter, message, inner: { counter, message } } and its parts
CompositeHeap ==
    <<[value |-> Num(MaxVal)],
      [counter |-> Num(0), message |-> Ref(1)],
      [counter |-> Num(MaxVal), message |-> Ref(1), inner |-> Ref(2)]>>
CompositeStates == {Ref(2), Ref(3)}

\* C14: for a child block registered under name n, every selector the child
\* declares is at composite.select.n and yields on a composite state what
\* the child's selector yields on the slice at n; the selectors given to the
\* composition's own selectors(map) are at the top level and receive the
\* full composite state.
C14_LiftedChildSelectors ==
    \A c \in Comps : compBuilt[c] # NoBlock =>
        /\ \A i \in DOMAIN blocks[c] :
              LET n == blocks[c][i].name
                  child == selectOf(blocks[c][i].block)
              IN  /\ n \in DOMAIN compositeSelect(c)
                  /\ LeafPaths(child) \subseteq LeafPaths(compositeSelect(c)[n])
                  /\ \A q \in LeafPaths(child), r \in CompositeStates :
                        Select(At(compositeSelect(c)[n], q), r, CompositeHeap)
                          = Select(At(child, q), Read(r, n, CompositeHeap), CompositeHeap)
        /\ \A k \in DOMAIN compositeSelect(c) :
              IsFunction(compositeSelect(c)[k]) =>
                  /\ compositeSelect(c)[k].path = <<>>
                  /\ \E m \in CompSelectorMaps : k \in DOMAIN m /\ m[k] = compositeSelect(c)[k]

\* C14 for the selectors a child had when it was registered: each one
\* lifted under n yields what the child's selector yields on the slice at n
C14_LiftedAsRegistered ==
    \A c \in Comps : \A i \in DOMAIN blocks[c] :
        LET n == blocks[c][i].name
            child == selectOf(blocks[c][i].block)
        IN  /\ n \in DOMAIN compositeSelect(c)
            /\ LeafPaths(compositeSelect(c)[n]) \subseteq LeafPaths(child)
            /\ \A q \in LeafPaths(compositeSelect(c)[n]), r \in CompositeStates :
                  Select(At(compositeSelect(c)[n], q), r, CompositeHeap)
                    = Select(At(child, q), Read(r, n, CompositeHeap), CompositeHeap)

\* C14 for the composition's own selectors: each is at the top level, as
\* given, and so receives the full composite state
C14_OwnSelectorsTopLevel ==
    \A c \in Comps : \A k \in DOMAIN compositeSelect(c) :
        IsFunction(compositeSelect(c)[k]) =>
            /\ compositeSelect(c)[k].path = <<>>
            /\ \E m \in CompSelectorMaps : k \in DOMAIN m /\ m[k] = compositeSelect(c)[k]

(* ------------------------------------------------------------------------ *)
(* Claims about the action creators of a composition                        *)
(* ------------------------------------------------------------------------ *)

\* the block registered under name n in the composition that built block
Registered(block, n) ==
    LET entries == blocks[block.of]
    IN  IF block.kind = "composition" /\ \E i \in DOMAIN entries : entries[i].name = n
            THEN entries[CHOOSE i \in DOMAIN entries : entries[i].name = n].block
            ELSE NoBlock

\* the composition behind any mapContext
RECURSIVE Unmapped(_)
Unmapped(block) == IF block.kind = "mapContext" THEN Unmapped(block.block) ELSE block

\* the block reached from block through the registration names of path
RECURSIVE BlockAt(_, _)
BlockAt(block, path) ==
    IF path = <<>> \/ block = NoBlock THEN block
    ELSE BlockAt(Registered(Unmapped(block), Head(path)), Tail(path))

\* C15: for a child block named C registered in a composition under name n,
\* at any depth, composite.actions.n is the child's own actions object and
\* composite.actions.n.x(...) returns what child.actions.x(...) returns, of
\* type "C/x": the composition's name and n are not in it.
C15_NoReprefixing ==
    /\ \A c \in Comps : \A i \in DOMAIN blocks[c] :
          LET got == actionsGet(actionsOf(compositeBlock(c, blocks[c])), blocks[c][i].name)
          IN  got.own /\ got.value = actionsOf(blocks[c][i].block)
    /\ last.op = "nestedCreator" =>
          LET held == SubSeq(last.path, 1, Len(last.path) - 1)
              x == last.path[Len(last.path)]
              child == BlockAt(compBuilt["root"], held)
          IN  (/\ held # <<>>
               /\ child # NoBlock
               /\ Registered(Unmapped(child), x) = NoBlock)
                  => /\ last.result = creatorCall(Unmapped(child).of, x, last.payload)
                     /\ last.result = callAt(actionsOf(child), <<x>>, last.payload)
                     /\ last.result.type = Unmapped(child).of \o "/" \o x

\* the counter block, registered as first in inner, inner as sub in root:
\* root.actions.sub.first.inc(a, b) has type "counter/inc"
C15_Witness ==
    /\ last.op = "nestedCreator"
    /\ last.path = <<"sub", "first", "inc">>
    /\ Len(last.payload) = 2
    /\ last.result = [type |-> "counter/inc", payload |-> last.payload]

(* ------------------------------------------------------------------------ *)
(* Claims about effects                                                     *)
(* ------------------------------------------------------------------------ *)

\* the factories registered with effects() on the builder of a block, the
\* effect names they return, and the factory whose handler a name ends with
factoriesOf(block) ==
    IF block.kind = "block" THEN handlers[block.of] ELSE compHandlers[block.of]
Returns(f) == DOMAIN FactoryResult(f, "ctx1")
Declared(block) == UNION {Returns(factoriesOf(block)[i]) : i \in DOMAIN factoriesOf(block)}
Winner(block, e) ==
    LET fs == factoriesOf(block)
        at == {i \in DOMAIN fs : e \in Returns(fs[i])}
    IN  fs[CHOOSE i \in at : \A j \in at : j <= i]

\* block is tree or a block under it
RECURSIVE Contains(_, _)
Contains(tree, block) ==
    \/ tree = block
    \/ /\ tree.kind = "composition"
       /\ \E i \in DOMAIN tree.reducers : Contains(tree.reducers[i].block, block)

\* what C16 says of the creator called last, its owner named N
CreatorAndTableAgree ==
    LET N == last.owner.of
        key == N \o "/" \o last.e
    IN  /\ last.result = creatorCall(N, last.e, last.payload)
        /\ \A c \in Contexts : has(effectsOf(last.owner, c), key)
        /\ (/\ mw # NoMw
            /\ Contains(mw.block, last.owner)
            /\ pc # "idle"
            /\ dispatched = last.result)
               => /\ Cardinality(Events("call")) = 1
                  /\ trace[1] = [ev |-> "call",
                                  handler |-> FactoryResult(Winner(last.owner, last.e),
                                                            mw.context)[last.e],
                                  args |-> last.payload]

\* C16, as claimed: for every effect name e returned by a factory registered
\* on a block or composition named N, actions.e(args...) has type "N/e",
\* "N/e" is a key of effects(context), and dispatching the action through
\* the middleware invokes the handler registered as e with args.
C16_CreatorMatchesTable ==
    (last.op = "effectCreator" /\ last.e \in Declared(last.owner))
        => CreatorAndTableAgree

\* C16, amended: the same for every effect name e that is not a name under
\* which a child block is registered in the composition, and whose key "N/e"
\* no child's effects table holds.
C16_CreatorMatchesTableUnlessShadowed ==
    (/\ last.op = "effectCreator"
     /\ last.e \in Declared(last.owner)
     /\ Registered(last.owner, last.e) = NoBlock
     /\ last.owner.kind = "composition" =>
            \A i \in DOMAIN blocks[last.owner.of], c \in Contexts :
                ~has(effectsOf(blocks[last.owner.of][i].block, c),
                     last.owner.of \o "/" \o last.e))
        => CreatorAndTableAgree

\* inner.actions.run(a, b), given to a middleware of root, has invoked the
\* handler of inner's factory
C16_Witness ==
    /\ last.op = "effectCreator"
    /\ last.owner = compBuilt["inner"]
    /\ last.e = "run"
    /\ Len(last.payload) = 2
    /\ mw # NoMw
    /\ mw.block = compBuilt["root"]
    /\ pc = "returned"
    /\ dispatched = last.result
    /\ Len(trace) = 3
    /\ trace[1].handler = [fn |-> "f2.run", ctx |-> mw.context]

\* the blocks registered in a composition, in registration order, and the
\* table each gives for a context
Children(block) == blocks[block.of]
ChildTable(block, i, context) == effectsOf(Children(block)[i].block, context)

\* the composite's table holds every key of every child and every effect of
\* the composition's own factories under the composition's name
HoldsEveryKey ==
    last.op = "compEffects" =>
        /\ \A i \in DOMAIN Children(last.block) :
                DOMAIN ChildTable(last.block, i, last.context) \subseteq DOMAIN last.result
        /\ \A e \in Declared(last.block) : has(last.result, last.block.of \o "/" \o e)
        /\ DOMAIN last.result =
                {last.block.of \o "/" \o e : e \in Declared(last.block)}
                    \cup UNION {DOMAIN ChildTable(last.block, i, last.context) :
                                    i \in DOMAIN Children(last.block)}

\* an action has been given to a middleware of a composition
GivenToComposite ==
    /\ mw # NoMw
    /\ pc # "idle"
    /\ "type" \in DOMAIN dispatched

\* the action given is an effect action of child i of the composition
EffectOfChild(i) == has(ChildTable(mw.block, i, mw.context), dispatched.type)

\* the handler called is the one child i has for the action
ReachesChild(i) ==
    /\ Len(trace) > 0
    /\ trace[1] = [ev |-> "call",
                   handler |-> ChildTable(mw.block, i, mw.context)[dispatched.type],
                   args |-> spreadPayload(dispatched)]
    /\ Cardinality(Events("call")) = 1

\* C17, as claimed: composite.effects(context) contains every key of every
\* registered child's effects(context) and every composition-level effect
\* under "<compositionName>/<effectName>", so an effect action of any child
\* given to a middleware of the composite reaches that child's handler.
C17_UnionReachesEveryChild ==
    /\ HoldsEveryKey
    /\ GivenToComposite =>
            \A i \in DOMAIN Children(mw.block) : EffectOfChild(i) => ReachesChild(i)

\* C17, amended: the table contains all those keys, and an effect action of
\* a child reaches the handler of the child registered last among the
\* children whose tables hold the action's type.
C17_UnionReachesLastChild ==
    /\ HoldsEveryKey
    /\ GivenToComposite =>
            \A i \in DOMAIN Children(mw.block) :
                (/\ EffectOfChild(i)
                 /\ \A j \in DOMAIN Children(mw.block) : EffectOfChild(j) => j <= i)
                    => ReachesChild(i)

\* counter.actions.run(a), given to a middleware of root, has called the
\* handler of the block registered last, that of mapContext(counter, swap)
C17_Witness ==
    /\ mw # NoMw
    /\ mw.block = compBuilt["root"]
    /\ pc = "returned"
    /\ dispatched = [type |-> "counter/run", payload |-> <<Num(MaxVal)>>]
    /\ Len(trace) = 3
    /\ trace[1].handler = [fn |-> "f1.run", ctx |-> Adapt("swap", mw.context)]
    /\ last.op = "compEffects"
    /\ last.block = compBuilt["root"]
    /\ Cardinality(DOMAIN last.result) = 6

(* ------------------------------------------------------------------------ *)
(* Claims about repeated registrations                                      *)
(* ------------------------------------------------------------------------ *)

\* C18: when action(name, h1) and later action(name, h2) are called on one
\* BlockBuilder, the reducer applies only h2 for the type "<blockName>/<name>":
\* for every state and payload the one handler it calls is h2, its result is
\* what h2 returns, and the table holds h2 where it held h1.
C18_LastActionWins ==
    (last.op = "action" /\ has(last.before, last.block \o "/" \o last.name)) =>
        LET b == last.block
            key == b \o "/" \o last.name
        IN  /\ reducers[b] = SetProp(last.before, key, last.handler)
            /\ \A hp \in InputHeaps(b) : \A s \in StatesOf(b, hp), a \in ActionsOf({key}) :
                LET state == IF s = Undef THEN initial(b) ELSE s
                IN  /\ reducerCalls(reducers[b], initial(b), s, a) =
                            <<[fn |-> last.handler, state |-> state,
                               args |-> spreadPayload(a)]>>
                    /\ blockReducer(b, s, a, hp) =
                            Apply(last.handler, state, spreadPayload(a), hp)

\* action("inc", set) has been called on the built counter block whose
\* "counter/inc" handler was inc
C18_Witness ==
    /\ last.op = "action"
    /\ last.block = "counter"
    /\ built["counter"]
    /\ has(last.before, "counter/inc")
    /\ last.before["counter/inc"] = "inc"
    /\ last.handler = "set"
    /\ last.name = "inc"
    /\ blockReducer("counter", Num(0), [type |-> "counter/inc", payload |-> <<Num(MaxVal)>>],
                    InitHeap).val = Num(MaxVal)

\* C19: effects(context) of a built block calls every registered factory
\* with the same context, once each in registration order, and returns a
\* table holding every effect name of every factory under
\* "<blockName>/<effectName>" and nothing else; a name two factories return
\* has the handler of the factory registered later.
C19_EffectsAdditiveLastWins ==
    last.op = "effects" =>
        LET b == last.block
            fs == handlers[b]
        IN  /\ last.calls =
                    <<[fn |-> "effects", of |-> leafBlock(b), ctx |-> last.context]>>
                        \o [i \in DOMAIN fs |-> [fn |-> fs[i], ctx |-> last.context]]
            /\ DOMAIN last.result = {b \o "/" \o e : e \in Declared(leafBlock(b))}
            /\ \A i \in DOMAIN fs : \A e \in Returns(fs[i]) :
                    /\ has(last.result, b \o "/" \o e)
                    /\ (\A j \in DOMAIN fs : e \in Returns(fs[j]) => j <= i)
                            => last.result[b \o "/" \o e] = FactoryResult(fs[i], last.context)[e]

\* effects(ctx) of a block built with effects(f2) then effects(f1): run is
\* f1's handler, stop is f2's
C19_Witness ==
    /\ last.op = "effects"
    /\ built[last.block]
    /\ handlers[last.block] = <<"f2", "f1">>
    /\ Len(last.calls) = 3
    /\ last.result[last.block \o "/run"] = [fn |-> "f1.run", ctx |-> last.context]
    /\ last.result[last.block \o "/stop"] = [fn |-> "f2.stop", ctx |-> last.context]

(* ------------------------------------------------------------------------ *)
(* Claims about a store with the middleware installed                       *)
(* ------------------------------------------------------------------------ *)

\* the action given to the store's middleware names both an effect and an
\* action handler of the block
Coincident ==
    /\ store.made
    /\ pc # "idle"
    /\ has(mw.effects, dispatched.type)
    /\ has(reducers[mw.block.of], dispatched.type)

\* C20: when a block registers an action handler and an effect under the
\* same name, dispatching that action through a store with the middleware
\* installed invokes the effect handler once and then, the effect handler
\* having returned, applies the action handler in the reducer once: the
\* reducer is not applied while the effect handler runs, and when the
\* dispatch returns the calls were the effect handler, next, and the action
\* handler on the store's state, in that order, and the store holds the
\* action handler's result.
C20_EffectThenReducer ==
    Coincident =>
        LET b == mw.block.of
            args == spreadPayload(dispatched)
        IN  /\ Events("call") = {1}
            /\ trace[1] = [ev |-> "call", handler |-> mw.effects[dispatched.type],
                           args |-> args]
            /\ pc \in {"handler", "thrown"} => Events("reduce") = {}
            /\ pc \in {"return", "returned"} =>
                  /\ Len(trace) = 4
                  /\ trace[2] = [ev |-> "return"]
                  /\ trace[3] = [ev |-> "next", action |-> dispatched]
                  /\ trace[4].ev = "reduce"
                  /\ trace[4].calls = <<[fn |-> reducers[b][dispatched.type],
                                         state |-> trace[4].state, args |-> args]>>
                  /\ trace[4].result =
                        Apply(reducers[b][dispatched.type], trace[4].state, args,
                              trace[4].before).val
                  /\ store.state = trace[4].result

\* counter.actions.run(a) dispatched twice to a store of counter: the effect
\* run was called, then the reducer applied inc, and the state is 2
C20_Witness ==
    /\ store.made
    /\ mw.block = leafBlock("counter")
    /\ pc = "returned"
    /\ served = 2
    /\ dispatched = [type |-> "counter/run", payload |-> <<Num(MaxVal)>>]
    /\ Len(trace) = 4
    /\ trace[1].handler = [fn |-> "f1.run", ctx |-> mw.context]
    /\ trace[4].calls = <<[fn |-> "inc", state |-> Num(1), args |-> <<Num(MaxVal)>>]>>
    /\ store.state = Num(2)

(* ------------------------------------------------------------------------ *)
(* Claims about what the middleware returns                                 *)
(* ------------------------------------------------------------------------ *)

\* C21: the per-action function returns whatever next(action) returned, for
\* every action it is given, whether or not an effect handler fired.
C21_ReturnsWhatNextReturns ==
    pc = "returned" =>
        /\ Len(returned.next) = 1
        /\ returned.fn = returned.next

\* what the per-action function does return: undefined, whatever next did
C21_ReturnsUndefined ==
    pc = "returned" => returned.fn = <<Undef>>

(* ------------------------------------------------------------------------ *)
(* Claims about mapContext and mapSelectors                                 *)
(* ------------------------------------------------------------------------ *)

\* C22: mapContext(block, adapter) has the actions, reducer and select of
\* block, its effects(newContext) is the table block.effects(adapter(
\* newContext)) gives, and a middleware of the mapped block and newContext
\* calls the handlers a middleware of block and adapter(newContext) would.
C22_MapContextRebindsOnly ==
    (mw # NoMw /\ mw.block.kind = "mapContext") =>
        LET inner == mw.block.block
            other == middleware(inner, Adapt(mw.block.mapper, mw.context))
        IN  /\ actionsOf(mw.block) = actionsOf(inner)
            /\ selectOf(mw.block) = selectOf(inner)
            /\ \A a \in StoreActions :
                    blockReduce(mw.block, Undef, a, InitHeap) =
                        blockReduce(inner, Undef, a, InitHeap)
            /\ mw.effects = other.effects
            /\ pc # "idle" =>
                  IF fires(other.effects, dispatched)
                      THEN /\ Events("call") = {1}
                           /\ trace[1] = [ev |-> "call",
                                          handler |-> Lookup(other.effects, dispatched.type),
                                          args |-> spreadPayload(dispatched)]
                      ELSE Events("call") = {}

\* counter.actions.run(a) given to a middleware of mapContext(counter, swap)
\* has called the handler counter makes for swap(context)
C22_Witness ==
    /\ mw # NoMw
    /\ mw.block = mapContext(leafBlock("counter"), "swap")
    /\ pc = "returned"
    /\ dispatched = [type |-> "counter/run", payload |-> <<Num(MaxVal)>>]
    /\ Len(trace) = 3
    /\ trace[1].handler = [fn |-> "f1.run", ctx |-> Adapt("swap", mw.context)]
    /\ trace[1].handler # [fn |-> "f1.run", ctx |-> mw.context]

\* the mapped Block has the actions, reducer and effects of the block it was
\* made of
FrameOf(mapped, block) ==
    /\ mapped.actions = actionsOf(block)
    /\ mapped.reducer = [of |-> block]
    /\ mapped.effects = [of |-> block]

\* every selector of tree is in the mapped Block's select, and applied to a
\* root it yields what the selector of tree yields on selectState(root)
SelectsThrough(mapped, tree, selectState) ==
    /\ LeafPaths(tree) = LeafPaths(mapped.select)
    /\ \A q \in LeafPaths(tree), r \in SelRoots :
            Select(At(mapped.select, q), r, SelHeap)
                = Select(At(tree, q), Project(selectState, r, SelHeap), SelHeap)

\* C23: mapSelectors(block, project) returns a block whose actions, reducer
\* and effects are the input block's own and whose select is the input's
\* tree lifted by project, so that mapped.select.<sel>(root) equals
\* block.select.<sel>(project(root)) for every selector of block: for the
\* mapped Block a caller holds and block.select as it is after any step.
C23_MapSelectorsOnlySelectors ==
    [][last.op = "mapSelectors" =>
          /\ FrameOf(last.result, last.block)
          /\ \A block \in {last.block} :
                SelectsThrough(last.result, selectOf(block)', last.by)]_vars

\* C23 for the selectors block has when mapSelectors is called
C23_MappedAsCalled ==
    last.op = "mapSelectors" =>
        /\ FrameOf(last.result, last.block)
        /\ SelectsThrough(last.result, selectOf(last.block), last.by)

\* C24: selectors(map) on a BlockBuilder shallow-merges: after the call the
\* block's select holds every name it held before and every name of map, a
\* name of map bound to map's function and every other name to the function
\* it had; so after any sequence of calls every name given is there, bound
\* to the function of the latest call that gave it.
C24_SelectorsShallowMerge ==
    last.op = "selectors" =>
        LET now == blockSelect(last.block)
        IN  /\ DOMAIN now = DOMAIN last.before \cup DOMAIN last.given
            /\ \A n \in DOMAIN last.given : now[n] = last.given[n]
            /\ \A n \in DOMAIN last.before \ DOMAIN last.given : now[n] = last.before[n]

\* selectors({ value }) on a built block that had value and double from an
\* earlier call: value is replaced, double is kept
C24_Witness ==
    /\ last.op = "selectors"
    /\ built[last.block]
    /\ DOMAIN last.before = {"value", "double"}
    /\ last.before["value"] = Selector("selValue2")
    /\ DOMAIN last.given = {"value"}
    /\ blockSelect(last.block)["value"] = Selector("selValue")
    /\ blockSelect(last.block)["double"] = Selector("selDouble")

(* ------------------------------------------------------------------------ *)
(* Claims about exceptions and the state given to a reducer                 *)
(* ------------------------------------------------------------------------ *)

\* the handler a block under tree finds for the action throws on the slice
\* that block is given
RECURSIVE ThrowsUnder(_, _, _, _)
ThrowsUnder(block, given, action, hp) ==
    IF block.kind = "block"
        THEN LET handler == Lookup(reducers[block.of], action.type)
                 state == IF given = Undef THEN initial(block.of) ELSE given
             IN  /\ handler # "undefined"
                 /\ Apply(handler, state, spreadPayload(action), hp).val = Thrown
        ELSE \E i \in DOMAIN block.reducers :
                ThrowsUnder(block.reducers[i].block,
                            slot(given, block.reducers[i].name, hp), action, hp)

\* every object of the caller's memory is as it was before the call
InputIntact == SubSeq(heap, 1, Len(last.before)) = last.before

\* C25: an exception thrown by an action handler leaves the block reducer
\* and every composite reducer that contains the block: the call returns no
\* state, and the objects of the state given are as they were before it.
C25_HandlerExceptionPropagates ==
    /\ (last.op = "reducer"
            /\ ThrowsUnder(leafBlock(last.block), last.state, last.action, last.before))
          => last.result = Thrown /\ InputIntact
    /\ (last.op = "rootReducer"
            /\ ThrowsUnder(compBuilt["root"], last.state, last.action, last.before))
          => last.result = Thrown /\ InputIntact

\* counter/inc on { counter: 0, inner: { counter: 1 } }: root's counter slot
\* changed and the copy was made, then the handler threw under inner
C25_Witness ==
    /\ last.op = "rootReducer"
    /\ last.state.t = "object"
    /\ last.action.type = "counter/inc"
    /\ Len(Collected) = 2
    /\ Collected[1].name = "counter"
    /\ slot(last.state, "counter", last.before) = Num(0)
    /\ slot(slot(last.state, "inner", last.before), "counter", last.before) = Num(1)
    /\ last.result = Thrown
    /\ Len(heap) > Len(last.before)
    /\ InputIntact

\* C26: for a composite reducer, a state object and an action, after the
\* reducer has returned the state object has the keys and the slot
\* references it had before the call, and so has every object under it,
\* also when one child changed and when several did.
C26_StateNotMutated ==
    (last.op = "rootReducer" /\ last.state.t = "object") =>
        /\ heap[last.state.a] = last.before[last.state.a]
        /\ InputIntact

\* counter/inc changed root's counter slot and inner's: the state given
\* still holds the old slots, the state returned the new ones
C26_Witness ==
    /\ last.op = "rootReducer"
    /\ last.state.t = "object"
    /\ last.action.type = "counter/inc"
    /\ Cardinality(Changed) = 2
    /\ last.result # last.state
    /\ slot(last.state, "counter", heap) = Num(0)
    /\ slot(last.result, "counter", heap) = Num(1)
    /\ slot(last.state, "inner", heap) # Undef
    /\ slot(last.result, "inner", heap) # slot(last.state, "inner", heap)

\* what state holds under name: undefined when it is no object or has no
\* such key
Under(state, name, hp) ==
    IF state.t = "object" /\ name \in DOMAIN hp[state.a] THEN hp[state.a][name] ELSE Undef

\* C27: for a composition and any sequence of actions applied from undefined
\* state, the composite state's slot for each child equals the state got by
\* folding that child's own reducer alone over the same sequence.
C27_ProductOfChildren ==
    last.op = "fold" =>
        \A i \in DOMAIN Collected :
            Deep(Under(last.state, Collected[i].name, heap), heap)
                = Deep(last.alone[i].val, last.alone[i].heap)

\* three actions folded: root's counter slot and inner's slots hold what
\* the blocks alone come to
C27_Witness ==
    /\ last.op = "fold"
    /\ last.steps = MaxFold
    /\ Len(Collected) = 2
    /\ \E i \in DOMAIN Collected :
          /\ Collected[i].name = "inner"
          /\ Len(Collected[i].block.reducers) = 2
    /\ Deep(Under(last.state, "counter", heap), heap) = Num(1)
    /\ Deep(Under(last.state, "inner", heap), heap) =
            [counter |-> Num(1), message |-> [value |-> Num(MaxVal)]]

(* ------------------------------------------------------------------------ *)
(* Claims about handlers that dispatch                                      *)
(* ------------------------------------------------------------------------ *)

\* how many dispatches of handlers are open after event i of the trace
Level(i) ==
    Cardinality({j \in 1..i : trace[j].ev = "dispatch"})
        - Cardinality({j \in 1..i : trace[j].ev \in {"back", "caught", "unwind"}})

\* the events at which the dispatch opened at d may have closed
Closings(d) ==
    {k \in (d + 1)..Len(trace) :
        Level(k) < Level(d) /\ \A j \in d..(k - 1) : Level(j) >= Level(d)}

\* the reduce events before event i
ReducedBefore(i) == {j \in Events("reduce") : j < i}

\* the state on which the reducer is applied at event i is the result of
\* the reducer's application before it, if there is one
Chained(i) ==
    ReducedBefore(i) # {} =>
        \E j \in ReducedBefore(i) :
            /\ \A k \in ReducedBefore(i) : k <= j
            /\ trace[i].state = trace[j].result

\* the action dispatched by a handler at d went through the per-action
\* function, to next and to the reducer, and that before event n
RanWhole(d, n) ==
    \A k \in Closings(d) :
        trace[k].ev = "back" =>
            \E j \in (d + 1)..(k - 1) :
                /\ trace[j].ev = "next"
                /\ trace[j].action = trace[d].action
                /\ Level(j) = Level(d)
                /\ trace[j + 1].ev = "reduce"
                /\ j + 1 < n

\* C28: when the dispatch of an action with an effect has returned, the
\* effect handler was called first; every action a handler dispatched
\* meanwhile, and whose dispatch returned, went to next and was applied by
\* the reducer before the outer action was forwarded; the outer action was
\* forwarded once, last, and the reducer was applied to it last, on a
\* state that holds what the inner actions made of it; and the store holds
\* the result.
C28_InnerBeforeOuter ==
    (store.made /\ pc = "returned" /\ stack = <<>> /\ fires(mw.effects, dispatched)) =>
        LET n == Len(trace)
        IN  /\ n >= 4
            /\ trace[1].ev = "call"
            /\ trace[n - 1].ev = "next"
            /\ trace[n - 1].action = dispatched
            /\ trace[n].ev = "reduce"
            /\ \A j \in Events("next") : Level(j) = 0 => j = n - 1
            /\ \A d \in Events("dispatch") : Closings(d) # {} /\ RanWhole(d, n - 1)
            /\ \A r \in Events("reduce") : Chained(r)
            /\ store.state = trace[n].result

\* counter.actions.run() dispatched to a store of counter whose handler
\* run dispatches counter.actions.inc(1): the state was 0, inc(1) made it
\* 1, then run was forwarded and made it 2
C28_Witness ==
    /\ store.made
    /\ mw.block = leafBlock("counter")
    /\ pc = "returned"
    /\ stack = <<>>
    /\ dispatched = [type |-> "counter/run"]
    /\ Len(trace) = 8
    /\ trace[2] = [ev |-> "dispatch",
                   action |-> [type |-> "counter/inc", payload |-> <<Num(1)>>]]
    /\ trace[4].ev = "reduce"
    /\ trace[4].state = Num(0)
    /\ trace[4].result = Num(1)
    /\ trace[5].ev = "back"
    /\ trace[8].ev = "reduce"
    /\ trace[8].state = Num(1)
    /\ store.state = Num(2)

\* the exception of a handler leaves the per-action function: nothing is
\* called after the handler has thrown, and the caller has the exception
ThrowLeaves ==
    \A i \in Events("throw") :
        /\ i = Len(trace) => pc = "thrown"
        /\ i < Len(trace) => trace[i + 1].ev \in {"unwind", "caught"}

\* a dispatch has thrown to the caller of the store: next was not called for
\* its action, the reducer was applied to what handlers dispatched only,
\* and the store holds the last of their results
ThrownOut ==
    (store.made /\ pc = "thrown" /\ stack = <<>>) =>
        /\ trace[Len(trace)].ev \in {"throw", "unwind"}
        /\ \A j \in Events("next") \cup Events("reduce") : Level(j) > 0
        /\ \A r \in Events("reduce") :
              /\ Chained(r)
              /\ ReducedBefore(Len(trace)) \subseteq ReducedBefore(r + 1) =>
                    store.state = trace[r].result

\* the state of the store changes when next is called, and then only
StoreKept ==
    (store.made /\ store' # store) =>
        /\ pc = "forward"
        /\ Len(trace') = Len(trace) + 2
        /\ trace'[Len(trace) + 1] = [ev |-> "next", action |-> dispatched]
        /\ trace'[Len(trace) + 2].ev = "reduce"
        /\ trace'[Len(trace) + 2].state = store.state

\* C29: when an effect handler throws, the exception leaves the
\* per-action function and next is not called for the action; the state of
\* the store changes only when next is called, so after a dispatch that
\* has thrown the store holds the state it had before, or the result of
\* the last action a handler dispatched and that reached the reducer.
C29_ThrowSkipsNext ==
    [][ThrowLeaves' /\ ThrownOut' /\ StoreKept]_vars

\* counter.actions.run() dispatched to a store of counter whose handler run
\* dispatches counter.actions.inc(1) and then throws: the state was 0 and
\* is 1, and run was never forwarded
C29_Witness ==
    /\ store.made
    /\ mw.block = leafBlock("counter")
    /\ pc = "thrown"
    /\ stack = <<>>
    /\ dispatched = [type |-> "counter/run"]
    /\ Len(trace) = 6
    /\ trace[2] = [ev |-> "dispatch",
                   action |-> [type |-> "counter/inc", payload |-> <<Num(1)>>]]
    /\ trace[4].ev = "reduce"
    /\ trace[4].state = Num(0)
    /\ trace[5].ev = "back"
    /\ trace[6].ev = "throw"
    /\ Events("next") = {3}
    /\ store.state = Num(1)

(* ------------------------------------------------------------------------ *)
(* Claims about a composition built and then extended                       *)
(* ------------------------------------------------------------------------ *)

\* the names a caller registers blocks under
ChildNames == Builders \cup Comps

\* the children whose slot the reducer of the Block c has built updates:
\* those of the reducers build() collected
Updated(c) == {compBuilt[c].reducers[i].name : i \in DOMAIN compBuilt[c].reducers}

\* the children whose handlers effects(context) of that Block holds: those
\* of this.blocks when it is called
Handled(c) == {blocks[c][i].name : i \in DOMAIN blocks[c]}

\* the children whose creators are under its actions: the own properties of
\* this.creators
WithCreators(c) == {n \in ChildNames : has(creators[c], n)}

\* the children whose lifted selectors are under its select
Selected(c) == {n \in ChildNames : has(compSelect[c], n)}

\* C30: the Block a CompositionBuilder has built has one set of children:
\* whatever calls the builder has had, block() after build() too, the
\* children its reducer updates are those whose handlers its effects
\* table holds and those whose creators and lifted selectors are under its
\* actions and select.
C30_OneSetOfChildren ==
    \A c \in Comps :
        compBuilt[c] # NoBlock =>
            /\ Updated(c) = Handled(c)
            /\ Handled(c) = WithCreators(c)
            /\ WithCreators(c) = Selected(c)

\* C30, for a Block since whose build() the builder has had no block():
\* the four sets are one
C30_OneSetAsBuilt ==
    \A c \in Comps :
        (compBuilt[c] # NoBlock /\ compBuilt[c].reducers = blocks[c]) =>
            /\ Updated(c) = Handled(c)
            /\ Handled(c) = WithCreators(c)
            /\ WithCreators(c) = Selected(c)

====
